---- MODULE Spec2Model ----
(***************************************************************************)
(* camter-rn: a React Native shell around a WebView.                       *)
(*                                                                         *)
(*  - Deep Link Resolver  (src/hooks/useDeepLink.ts)                       *)
(*  - Native Bridge       (WebViewContainer.handleMessage,                 *)
(*                         sendNativeResponse, sendResultToWebView)        *)
(*  - Host Container      (interactive gate, message queue, App start-up)  *)
(*                                                                         *)
(* Strings that the code takes apart (deep-link URLs) are sequences of     *)
(* tokens: a scheme token ("camter://"), the separators "/", "?", "=",     *)
(* "&" and atomic names and values.  startsWith, replace, includes and     *)
(* split are computed on the token sequence; the resolved path is the      *)
(* TLA+ string obtained by concatenating tokens, as the template strings   *)
(* of the code do.  Percent-decoding of URLSearchParams is not modelled    *)
(* (no token contains "%" or "+").                                         *)
(***************************************************************************)
EXTENDS Integers, Sequences, FiniteSets, TLC

(***************************************************************************)
(* Bounds of the model                                                     *)
(***************************************************************************)
MaxParams == 2      \* query parameters per generated deep-link URL
MaxMsgs == 2        \* bridge messages received per run
MaxTimers == 2      \* stabilization timers pending at once
MaxUrlEvents == 3   \* 'url' events per run
MaxDispatched == 1  \* messages per run of the dispatcher specification
MaxNavs == 3        \* navigation attempts per run of the interception specification
MaxPermOps == 3     \* permission operations per run
MaxRequests == 2    \* requests the page issues per run
MaxWebCalls == 3    \* calls of the page's response handlers per run
MaxBadge == 1       \* the badge count
MaxTokenRequests == 2  \* token requests of the effect awaiting getFcmToken at once
MaxErrors == 2      \* error events of the WebView per run
MaxShares == 2      \* shareKakao calls per run of the Kakao specification
MaxBacks == 2       \* back presses per run of the back-button specification
MaxNow == 4000      \* the last clock value of the back-button specification, in ms

(***************************************************************************)
(* Sequence helpers                                                        *)
(***************************************************************************)
RECURSIVE Join(_)
Join(s) == IF s = <<>> THEN "" ELSE Head(s) \o Join(Tail(s))

Range(s) == { s[i] : i \in 1..Len(s) }

\* index of the first occurrence of token t in s, 0 when absent
IndexOf(s, t) ==
  IF \E i \in 1..Len(s) : s[i] = t
  THEN CHOOSE i \in 1..Len(s) : s[i] = t /\ \A j \in 1..(i-1) : s[j] # t
  ELSE 0

\* String.prototype.includes for a one-token needle
Includes(s, t) == IndexOf(s, t) # 0

\* s.split(t)[0]
BeforeFirst(s, t) == IF Includes(s, t) THEN SubSeq(s, 1, IndexOf(s, t) - 1) ELSE s

\* everything after the first t (empty when t is absent)
AfterFirst(s, t) == IF Includes(s, t) THEN SubSeq(s, IndexOf(s, t) + 1, Len(s)) ELSE <<>>

\* s.split(t)[1] for an s that includes t: the piece between the first and the second t
SplitSecond(s, t) == BeforeFirst(AfterFirst(s, t), t)

\* s.split(t) as a sequence of pieces
RECURSIVE Split(_, _)
Split(s, t) ==
  IF Includes(s, t) THEN <<BeforeFirst(s, t)>> \o Split(AfterFirst(s, t), t) ELSE <<s>>

(***************************************************************************)
(* Deep Link Resolver: pure functions                                      *)
(***************************************************************************)
Undefined == "<undefined>"
NullPath == "<null>"

SUPPORTED_SCHEMES == <<"camter://", "camterapp://", "camterguest://", "exp://">>
KAKAO_JS_SCHEME == "kakaob0892b60f070bd0742c5cb6f792dac5d://"
KAKAO_NATIVE_SCHEME == "kakao1a11067057bb6fcf187e925d406f9386://"

ParamKeys ==
  <<"productId", "eventId", "programId", "postId", "reservationId",
    "screen", "code", "state", "error">>

\* url.startsWith(scheme): the scheme is the first token of a URL
StartsWith(url, scheme) == Len(url) > 0 /\ url[1] = scheme

\* url.replace(scheme, '') for a url that starts with scheme
StripScheme(url) == Tail(url)

\* new URLSearchParams(queryString): the name=value pairs in order;
\* empty pieces between "&" are skipped, a piece is cut at its first "="
SearchPairs(query) ==
  LET pieces == Split(query, "&")
      kept == SelectSeq(pieces, LAMBDA p : p # <<>>)
  IN  [i \in 1..Len(kept) |->
         [name |-> Join(BeforeFirst(kept[i], "=")),
          value |-> Join(AfterFirst(kept[i], "="))]]

\* searchParams.has(key)
SearchHas(pairs, key) == \E i \in 1..Len(pairs) : pairs[i].name = key

\* searchParams.get(key): the value of the first pair named key
SearchGet(pairs, key) ==
  pairs[CHOOSE i \in 1..Len(pairs) :
          pairs[i].name = key /\ \A j \in 1..(i-1) : pairs[j].name # key].value

\* JavaScript truthiness of a string-or-undefined
Truthy(v) == v # Undefined /\ v # ""

\* searchParams.get(key) || undefined
OrUndefined(v) == IF Truthy(v) THEN v ELSE Undefined

EmptyParams == [k \in Range(ParamKeys) |-> Undefined]

parseUrlParams(url) ==
  IF Includes(url, "?")
  THEN LET pairs == SearchPairs(SplitSecond(url, "?"))
       IN  [k \in Range(ParamKeys) |->
              IF SearchHas(pairs, k) THEN OrUndefined(SearchGet(pairs, k)) ELSE Undefined]
  ELSE EmptyParams

\* the scheme/host stripping of convertToWebViewPath, a token sequence
StrippedPath(url) ==
  LET afterSupported ==
        IF \E i \in 1..Len(SUPPORTED_SCHEMES) : StartsWith(url, SUPPORTED_SCHEMES[i])
        THEN StripScheme(url) ELSE <<>>
      afterKakao ==
        IF StartsWith(url, KAKAO_JS_SCHEME) THEN StripScheme(url)
        ELSE IF StartsWith(url, KAKAO_NATIVE_SCHEME) THEN StripScheme(url)
        ELSE afterSupported
      parts0 == BeforeFirst(afterKakao, "/")
  IN  IF Includes(afterKakao, "/") /\ parts0 # <<>> /\ ~Includes(parts0, "=")
      THEN <<"/">> \o AfterFirst(afterKakao, "/")
      ELSE afterKakao

\* const [basePath] = path.split('?')
BasePath(url) == Join(BeforeFirst(StrippedPath(url), "?"))

\* a resolver that looks at eventId before productId
convertEventFirst(url, params) ==
  IF url = <<>> THEN NullPath
  ELSE IF Truthy(params["eventId"]) THEN "/event/" \o params["eventId"]
  ELSE IF Truthy(params["productId"]) THEN "/product/" \o params["productId"]
  ELSE IF Truthy(params["programId"]) THEN "/program/" \o params["programId"]
  ELSE IF Truthy(params["postId"]) THEN "/community/post/" \o params["postId"]
  ELSE IF Truthy(params["reservationId"])
       THEN "/reservation-detail/" \o params["reservationId"]
  ELSE IF Truthy(params["code"])
       THEN (IF BasePath(url) # "" THEN BasePath(url) ELSE "/oauth/callback")
            \o "?code=" \o params["code"]
            \o (IF Truthy(params["state"]) THEN "&state=" \o params["state"] ELSE "")
  ELSE IF BasePath(url) # "" THEN BasePath(url) ELSE "/"

\* convertToWebViewPath of useDeepLink
convertToWebViewPath(url, params) ==
  IF url = <<>> THEN NullPath
  ELSE IF Truthy(params["productId"]) THEN "/product/" \o params["productId"]
  ELSE IF Truthy(params["eventId"]) THEN "/event/" \o params["eventId"]
  ELSE IF Truthy(params["programId"]) THEN "/program/" \o params["programId"]
  ELSE IF Truthy(params["postId"]) THEN "/community/post/" \o params["postId"]
  ELSE IF Truthy(params["reservationId"])
       THEN "/reservation-detail/" \o params["reservationId"]
  ELSE IF Truthy(params["code"])
       THEN (IF BasePath(url) # "" THEN BasePath(url) ELSE "/oauth/callback")
            \o "?code=" \o params["code"]
            \o (IF Truthy(params["state"]) THEN "&state=" \o params["state"] ELSE "")
  ELSE IF BasePath(url) # "" THEN BasePath(url) ELSE "/"

\* an allow-list test that lets every scheme through
AnySchemeSupported(url) == TRUE

\* the allow-list test of processUrl
IsSupported(url) ==
  \/ \E i \in 1..Len(SUPPORTED_SCHEMES) : StartsWith(url, SUPPORTED_SCHEMES[i])
  \/ StartsWith(url, KAKAO_JS_SCHEME)
  \/ StartsWith(url, KAKAO_NATIVE_SCHEME)

(***************************************************************************)
(* Inputs of the resolver: generated deep-link URLs                        *)
(***************************************************************************)
InputSchemes ==
  Range(SUPPORTED_SCHEMES) \cup {KAKAO_JS_SCHEME, KAKAO_NATIVE_SCHEME, "foo://"}

\* host and path part, before the query
HostPaths == { <<>>, <<"auth">>, <<"home">>, <<"home", "/">>, <<"shop", "/", "list">> }

IdKeys == <<"productId", "eventId", "programId", "postId", "reservationId">>

\* one name=value piece; a value may be empty ("productId=")
QueryParams ==
  { <<k, "=">> \o v : k \in Range(IdKeys), v \in {<<"5">>, <<"9">>, <<>>} }
  \cup { <<"code", "=">> \o v : v \in {<<"ABC">>, <<>>} }
  \cup { <<"state", "=">> \o v : v \in {<<"XYZ">>, <<>>} }

RECURSIVE QueriesOf(_)
QueriesOf(n) ==
  IF n = 0 THEN { <<>> }
  ELSE LET shorter == QueriesOf(n - 1)
       IN  shorter \cup { q \o <<"&">> \o p : q \in shorter \ {<<>>}, p \in QueryParams }
                   \cup QueryParams

Queries == { <<>> } \cup { <<"?">> \o q : q \in QueriesOf(MaxParams) \ {<<>>} }

UrlInputs ==
  { <<s>> \o h \o q : s \in InputSchemes, h \in HostPaths, q \in Queries }
  \cup { <<"camter://", "shop", "?", "eventId", "=", "9", "?", "productId", "=", "5">> }

(***************************************************************************)
(* Inputs of the running app                                               *)
(***************************************************************************)
NoUrl == <<>>
NoPath == "<none>"

\* deep-link activations the OS delivers while the app runs
DeepLinkUrls ==
  { <<"camter://", "shop", "/", "list", "?", "productId", "=", "5">>,
    <<"foo://", "bar">>,
    <<"foo://", "bar", "?", "productId", "=", "5">> }

WEBVIEW_BASE == "https://camter-client.vercel.app"

\* WEBVIEW_URL of App.tsx, the uri prop of the container, as tokens
WEBVIEW_URL == <<"https://", "camter-client.vercel.app", "/">>

Actions ==
  { "showImagePicker", "pickImage", "pickImageFromCamera", "pickImageFromGallery",
    "checkPermission", "getFcmToken", "notifyLoginSuccess", "notifyLogout",
    "downloadFile", "openExternalLink", "shareContent", "shareKakao", "bogusAction" }

\* the part of the payload the dispatcher looks at, per action
ArgsOf(action) ==
  CASE action = "pickImage" -> {"nosource", "camera", "gallery"}
    [] action = "checkPermission" -> {"nodata", "notype", "camera", "photos"}
    [] action = "notifyLoginSuccess" -> {"accessToken", "notoken"}
    [] action \in {"downloadFile", "openExternalLink", "shareContent"} -> {"data", "nodata"}
    [] action = "shareKakao" -> {"valid", "invalid"}
    [] OTHER -> {"-"}

\* messages of thrown errors; an Error may carry an empty message
ErrMsgs == {"native failure", ""}

AppStates == {"active", "inactive", "background"}

(***************************************************************************)
(* Time: the stabilization timer                                           *)
(***************************************************************************)
SettleDelay == 800
TickMs == SettleDelay \div 2

\* EXIT_TIMEOUT of the back handler, and the step of its clock
EXIT_TIMEOUT == 2000
BackStepMs == EXIT_TIMEOUT \div 2

(***************************************************************************)
(* Payload values                                                          *)
(***************************************************************************)
Null == [tag |-> "null"]
Image(source) == [tag |-> "image", source |-> source]
UseWebUI == [tag |-> "useWebUI"]
Token == [tag |-> "fcmToken"]
ShareResult(fallback) == [tag |-> "share", success |-> TRUE, fallback |-> fallback]

\* the record checkPermission's catch branch returns, for every status
checkPermissionCaught(status) ==
  [tag |-> "permission", granted |-> FALSE, denied |-> TRUE,
   permanentlyDenied |-> FALSE, limited |-> FALSE]

\* checkPermission of webviewBridge: the status record for a platform status;
\* a throwing platform call is caught and reported as denied
checkPermission(status) ==
  IF status = "throws"
  THEN [tag |-> "permission", granted |-> FALSE, denied |-> TRUE,
        permanentlyDenied |-> FALSE, limited |-> FALSE]
  ELSE [tag |-> "permission", granted |-> (status = "granted"),
        denied |-> (status = "denied"), permanentlyDenied |-> (status = "denied"),
        limited |-> FALSE]

\* pickImageFromCamera / pickImageFromGallery of webviewBridge: an image only when
\* permission was granted and the picker returned an asset; everything else,
\* a thrown platform error included, is null
pickImageResult(source, outcome) == IF outcome = "asset" THEN Image(source) ELSE Null

\* the platform call that reads the status of a permission type
Getter(type) ==
  IF type = "camera" THEN "getCameraPermissionsAsync" ELSE "getMediaLibraryPermissionsAsync"

\* the platform call that asks the user for a permission type
Requester(type) ==
  IF type = "camera" THEN "requestCameraPermissionsAsync"
  ELSE "requestMediaLibraryPermissionsAsync"

Launcher(type) ==
  IF type = "camera" THEN "launchCameraAsync" ELSE "launchImageLibraryAsync"

\* the permission type a picker source needs
PermissionOf(source) == IF source = "camera" THEN "camera" ELSE "photos"

\* a picker that launches without looking at the permission status
pickImageCallsUnchecked(source, outcome) ==
  <<Requester(PermissionOf(source)), Launcher(PermissionOf(source))>>

\* the platform calls of pickImageFromCamera / pickImageFromGallery: the permission
\* request, and the picker launch only when the request returned granted
pickImageCalls(source, outcome) ==
  IF outcome \in {"throws", "denied"} THEN <<Requester(PermissionOf(source))>>
  ELSE <<Requester(PermissionOf(source)), Launcher(PermissionOf(source))>>

PickOutcomes == {"denied", "cancelled", "asset", "throws"}
PermissionStatuses == {"granted", "denied", "undetermined", "throws"}

(***************************************************************************)
(* Scripts sent to the WebView                                             *)
(***************************************************************************)
\* a response object that passes the error through as given
NativeResponseAsGiven(requestId, success, data, error) ==
  [requestId |-> requestId,
   success |-> success,
   data |-> IF success THEN data ELSE Null,
   error |-> IF success THEN Undefined ELSE error]

\* the response object built by sendNativeResponse
NativeResponse(requestId, success, data, error) ==
  [requestId |-> requestId,
   success |-> success,
   data |-> IF success THEN data ELSE Null,
   error |-> IF success THEN Undefined
             ELSE IF Truthy(error) THEN error ELSE "Unknown error"]

\* a legacy response object that passes the error through as given
FlutterResponseAsGiven(requestId, success, data, error) ==
  [requestId |-> requestId,
   success |-> success,
   data |-> IF success THEN data ELSE Null,
   error |-> IF success THEN Undefined ELSE error]

\* the response object built by sendFlutterResponse of the legacy container
FlutterResponse(requestId, success, data, error) ==
  [requestId |-> requestId,
   success |-> success,
   data |-> IF success THEN data ELSE Null,
   error |-> IF success THEN Undefined
             ELSE IF Truthy(error) THEN error ELSE "Unknown error"]

\* a script is what injectJavaScript receives; seq (order of generation) and
\* genOpen (the interactive flag when it was generated) are history fields
ResponseScript(response, seq, open) ==
  [kind |-> "response", requestId |-> response.requestId, type |-> "",
   success |-> response.success, data |-> response.data, error |-> response.error,
   seq |-> seq, genOpen |-> open]

ResultScript(type, result, seq, open) ==
  [kind |-> "result", requestId |-> 0, type |-> type,
   success |-> TRUE, data |-> result, error |-> Undefined,
   seq |-> seq, genOpen |-> open]

NavScript(via, target, seq, open) ==
  [kind |-> "nav", requestId |-> 0, type |-> via,
   success |-> TRUE, data |-> [tag |-> "href", target |-> target], error |-> Undefined,
   seq |-> seq, genOpen |-> open]

(***************************************************************************)
(* Web side: window._pendingRequests and the response handlers             *)
(***************************************************************************)
RemoveAt(s, i) == SubSeq(s, 1, i - 1) \o SubSeq(s, i + 1, Len(s))

\* handleFlutterResponse without the delete: the entry stays in the table
SettleWithoutDelete(web, script) ==
  IF Includes(web.pending, script.requestId)
  THEN [pending |-> web.pending,
        log |-> Append(web.log, [requestId |-> script.requestId, by |-> script.requestId,
                                 resolved |-> script.success, data |-> script.data])]
  ELSE web

\* handleFlutterResponse without the lookup: settles whatever requestId it is given
SettleWithoutLookup(web, script) ==
  [pending |-> IF Includes(web.pending, script.requestId)
               THEN RemoveAt(web.pending, IndexOf(web.pending, script.requestId))
               ELSE web.pending,
   log |-> Append(web.log, [requestId |-> script.requestId, by |-> script.requestId,
                            resolved |-> script.success, data |-> script.data])]

\* window.handleFlutterResponse: settle and delete the entry of response.requestId,
\* do nothing when there is none
handleFlutterResponse(web, script) ==
  IF Includes(web.pending, script.requestId)
  THEN [pending |-> RemoveAt(web.pending, IndexOf(web.pending, script.requestId)),
        log |-> Append(web.log, [requestId |-> script.requestId, by |-> script.requestId,
                                 resolved |-> script.success, data |-> script.data])]
  ELSE web

\* window.handleNativeResponseByType: settle and delete the first pending entry
handleNativeResponseByType(web, script) ==
  IF web.pending # <<>>
  THEN [pending |-> Tail(web.pending),
        log |-> Append(web.log, [requestId |-> Head(web.pending), by |-> 0,
                                 resolved |-> TRUE, data |-> script.data])]
  ELSE web

\* the page runs one injected script
RunScript(web, script) ==
  CASE script.kind = "response" -> handleFlutterResponse(web, script)
    [] script.kind = "result" -> handleNativeResponseByType(web, script)
    [] OTHER -> web

RECURSIVE RunScripts(_, _)
RunScripts(web, scripts) ==
  IF scripts = <<>> THEN web ELSE RunScripts(RunScript(web, Head(scripts)), Tail(scripts))

(***************************************************************************)
(* State                                                                   *)
(***************************************************************************)
VARIABLES
  \* App start-up (App.tsx, useDeepLink, usePushNotification)
  isAppReady,          \* prepare() finished
  isReady,             \* useDeepLink: getInitialURL settled
  isPushInitialized,   \* usePushNotification: initialize() finished
  mounted,             \* WebViewContainer is rendered (webViewRef.current is set)
  dirty,               \* a state update awaits its render and effects
  \* useDeepLink
  deepLink,            \* [url, webViewPath] of deepLinkResult
  processedUrls,       \* the seen-set
  urlEvents,           \* activations delivered so far
  submitted,           \* per URL: how often it was submitted (0, 1, 2 = twice or more)
  navTriggered,        \* per URL: navigation scripts injected for it
  \* WebViewContainer
  appState,            \* appState.current
  load,                \* "none", "loading" (onLoadStart), "ended" (onLoadEnd)
  msgSeen,             \* a bridge message arrived since the last onLoadStart
  isWebViewLoaded,
  isWebViewInteractive,
  messageQueue,
  timers,              \* remaining ms of each pending stabilization timer, oldest first
  sinceForeground,     \* ms since the last background-to-foreground change, capped
  injected,            \* scripts handed to injectJavaScript, in order
  genCount,            \* scripts generated so far
  \* bridge messages being handled
  msgs,
  \* web page
  pendingRequests,     \* requestIds of window._pendingRequests, in insertion order
  settleLog,           \* promises settled by the response handlers
  \* resolver run on one generated URL
  rUrl, rParams, rPath, rpc,
  \* navigation interception (onShouldStartLoadWithRequest)
  variant,             \* "current" or "legacy" container
  webviewSource,       \* the source state: [uri, origin] (origin: Origin header attached)
  pendingLoad,         \* a load the WebView was told to start by a new source
  navLog,              \* the calls of handleShouldStartLoadWithRequest and their effects
  \* platform permissions (expo-image-picker)
  permStatus,          \* per permission type: the status the platform holds
  permLog,             \* the bridge's permission and picker operations and their platform calls
  \* web page, driven directly
  reqCount,            \* requests the page's bridge wrappers made (generateRequestId calls)
  webCalls,            \* calls of the page's response handlers: [fn, requestId]
  \* usePushNotification
  isDevice,            \* Device.isDevice
  fcmToken,            \* the hook's fcmToken state (Null or Token)
  storedToken,         \* the token in device storage (Null or Token)
  badge,               \* the notification badge count
  effectDue,           \* the token request effect runs after the pending render
  tokenRequests,       \* requestPermission calls of the effect awaiting getFcmToken
  loginPc,             \* handleLoginSuccess: "idle", "request", "sync"
  logoutPc,            \* handleLogout: "idle", "clearFcmToken", "clearBadge"
  loggedOut,           \* "pending": handleLogout runs; "yes": it completed; "no": never
                       \* called, failed, or handleLoginSuccess was called since its call
  \* WebViewContainer: error events
  errorLog,            \* one record per onError / onHttpError event of the WebView
  \* kakaoShareService
  platformOS,          \* Platform.OS: "android" or "ios"
  isKakaoInitialized,  \* the module variable isKakaoInitialized
  kakaoPc,             \* per caller: where its initKakaoSDK / shareKakaoFeed call stands
  kakaoLog,            \* SDK calls and returns of initKakaoSDK, in order
  \* App: the Android back button
  currentUrl,          \* App's currentUrl state
  canGoBack,           \* App's canGoBack state
  lastAppUrl,          \* App's lastAppUrl state
  now,                 \* Date.now(), in ms
  lastBackPress,       \* the lastBackPress ref (0: never set)
  exitSnackbarVisible, \* App's exitSnackbarVisible state
  hideTimers,          \* due times of the pending snackbar-hiding timeouts
  backLog,             \* one record per hardwareBackPress event
  exited               \* BackHandler.exitApp() was called

appVars == <<isAppReady, isReady, isPushInitialized, mounted, dirty>>
linkVars == <<deepLink, processedUrls, urlEvents, submitted, navTriggered>>
gateVars == <<appState, load, msgSeen, isWebViewLoaded, isWebViewInteractive, timers,
              sinceForeground>>
outVars == <<messageQueue, injected, genCount>>
webVars == <<pendingRequests, settleLog>>
resolveVars == <<rUrl, rParams, rPath, rpc>>
navVars == <<variant, webviewSource, pendingLoad, navLog>>
permVars == <<permStatus, permLog>>
pageVars == <<reqCount, webCalls>>
pushVars == <<isDevice, fcmToken, storedToken, badge, effectDue, tokenRequests, loginPc,
              logoutPc, loggedOut>>
errVars == <<errorLog>>
kakaoVars == <<platformOS, isKakaoInitialized, kakaoPc, kakaoLog>>
backVars == <<currentUrl, canGoBack, lastAppUrl, now, lastBackPress, exitSnackbarVisible,
              hideTimers, backLog, exited>>
extraVars == <<navVars, permVars, pageVars, pushVars, errVars, kakaoVars, backVars>>
vars == <<appVars, linkVars, gateVars, outVars, msgs, webVars, resolveVars, extraVars>>

MsgIds == 1..MaxMsgs

\* the source the container starts with: { uri }, no headers
InitialSource == [uri |-> WEBVIEW_URL, origin |-> FALSE]

InitNav(v) ==
  /\ variant = v
  /\ webviewSource = InitialSource
  /\ pendingLoad = NoUrl
  /\ navLog = <<>>

PermTypes == {"camera", "photos"}

\* nothing was asked of the platform yet
InitPerm ==
  /\ permStatus = [t \in PermTypes |-> "undetermined"]
  /\ permLog = <<>>

InitPage ==
  /\ reqCount = 0
  /\ webCalls = <<>>

\* the hook before its first effect, on a device with the given storage and badge
InitPush(device, stored, count) ==
  /\ isDevice = device
  /\ fcmToken = Null
  /\ storedToken = stored
  /\ badge = count
  /\ effectDue = FALSE
  /\ tokenRequests = 0
  /\ loginPc = "idle"
  /\ logoutPc = "idle"
  /\ loggedOut = "no"

IdleMsg ==
  [action |-> "-", arg |-> "-", requestId |-> 0, phase |-> "idle",
   threw |-> FALSE, threw2 |-> FALSE, err |-> "", escaped |-> FALSE, calls |-> <<>>,
   outcome |-> "-", platform |-> <<>>]

NoDeepLink == [url |-> NoUrl, webViewPath |-> NoPath]

InitAppOnly ==
  /\ isAppReady = FALSE
  /\ isReady = FALSE
  /\ isPushInitialized = FALSE
  /\ mounted = FALSE
  /\ dirty = FALSE
  /\ deepLink = NoDeepLink
  /\ processedUrls = {}
  /\ urlEvents = 0
  /\ submitted = [u \in DeepLinkUrls |-> 0]
  /\ navTriggered = [u \in DeepLinkUrls |-> 0]
  /\ appState = "active"
  /\ load = "none"
  /\ msgSeen = FALSE
  /\ isWebViewLoaded = FALSE
  /\ isWebViewInteractive = FALSE
  /\ messageQueue = <<>>
  /\ timers = <<>>
  /\ sinceForeground = SettleDelay
  /\ injected = <<>>
  /\ genCount = 0
  /\ msgs = [i \in MsgIds |-> IdleMsg]
  /\ pendingRequests = <<>>
  /\ settleLog = <<>>

InitErr == errorLog = <<>>

InitBack ==
  /\ currentUrl = WEBVIEW_URL
  /\ canGoBack = FALSE
  /\ lastAppUrl = WEBVIEW_URL
  /\ now = BackStepMs
  /\ lastBackPress = 0
  /\ exitSnackbarVisible = FALSE
  /\ hideTimers = {}
  /\ backLog = <<>>
  /\ exited = FALSE

\* callers of kakaoShareService: 0 is prepare() of App (initKakaoSDK), the others are
\* shareKakao messages (shareKakaoFeed)
KakaoCallers == 0..MaxShares

InitKakao(os) ==
  /\ platformOS = os
  /\ isKakaoInitialized = FALSE
  /\ kakaoPc = [c \in KakaoCallers |-> "idle"]
  /\ kakaoLog = <<>>

InitApp ==
  InitAppOnly /\ InitNav("current") /\ InitPerm /\ InitPage /\ InitPush(TRUE, Null, 0) /\ InitErr
  /\ InitKakao("android")
  /\ InitBack

Init ==
  /\ InitApp
  /\ rUrl = NoUrl
  /\ rParams = EmptyParams
  /\ rPath = NullPath
  /\ rpc = "off"

(***************************************************************************)
(* Resolver specification: processUrl's parse-and-convert on every input   *)
(***************************************************************************)
InitResolve ==
  /\ InitApp
  /\ rUrl \in UrlInputs
  /\ rParams = EmptyParams
  /\ rPath = NullPath
  /\ rpc = "in"

appAllButNav == <<appVars, linkVars, gateVars, outVars, msgs, webVars>>
appAll == <<appAllButNav, extraVars>>

\* processUrl: supported scheme, parseUrlParams then convertToWebViewPath
ResolveSupported ==
  /\ rpc = "in"
  /\ IsSupported(rUrl)
  /\ rParams' = parseUrlParams(rUrl)
  /\ rPath' = convertToWebViewPath(rUrl, parseUrlParams(rUrl))
  /\ rpc' = "out"
  /\ UNCHANGED <<rUrl, appAll>>

\* processUrl: unsupported scheme, early return
RejectUnsupported ==
  /\ rpc = "in"
  /\ ~IsSupported(rUrl)
  /\ rpc' = "ignored"
  /\ UNCHANGED <<rUrl, rParams, rPath, appAll>>

NextResolve == ResolveSupported \/ RejectUnsupported

ResolveSpec == InitResolve /\ [][NextResolve]_vars

(***************************************************************************)
(* injectJavaScript: the record of what reached the WebView                *)
(***************************************************************************)
\* open: the interactive flag at the call; queued: the script came out of the
\* message queue; settled: the settle delay since the last return to the
\* foreground had elapsed; ended: onLoadEnd had been reported for the current load
LogEntries(scripts, open, queued) ==
  [k \in 1..Len(scripts) |->
     [s |-> scripts[k], open |-> open, queued |-> queued,
      settled |-> (sinceForeground >= SettleDelay),
      ended |-> (load = "ended")]]

(***************************************************************************)
(* App start-up and deep links (App.tsx, useDeepLink)                      *)
(***************************************************************************)
\* processUrl: the new deepLinkResult and seen-set
processUrl(link, seen, url) ==
  IF url = NoUrl THEN [link |-> link, seen |-> seen, changed |-> FALSE]
  ELSE IF url \in seen THEN [link |-> link, seen |-> seen, changed |-> FALSE]
  ELSE IF ~IsSupported(url)
       THEN [link |-> link, seen |-> seen \cup {url}, changed |-> FALSE]
  ELSE [link |-> [url |-> url,
                  webViewPath |-> convertToWebViewPath(url, parseUrlParams(url))],
        seen |-> seen \cup {url},
        changed |-> TRUE]

Bump(count, url) ==
  IF url \in DOMAIN count
  THEN [count EXCEPT ![url] = IF @ < 2 THEN @ + 1 ELSE @]
  ELSE count

\* prepare() of App.tsx reaches its finally block
PrepareDone ==
  /\ ~isAppReady
  /\ isAppReady' = TRUE
  /\ dirty' = TRUE
  /\ UNCHANGED <<isReady, isPushInitialized, mounted, linkVars, gateVars, outVars, msgs,
                 webVars, resolveVars, extraVars>>

\* initialize() of usePushNotification: a stored token becomes the hook's token,
\* isInitialized is set, and the render that follows runs the token request effect
PushInitDone ==
  /\ ~isPushInitialized
  /\ isPushInitialized' = TRUE
  /\ dirty' = TRUE
  /\ fcmToken' = IF storedToken # Null THEN storedToken ELSE fcmToken
  /\ effectDue' = TRUE
  /\ UNCHANGED <<isAppReady, isReady, mounted, linkVars, gateVars, outVars, msgs,
                 webVars, resolveVars, navVars, permVars, pageVars, errVars, kakaoVars, backVars,
                 isDevice, storedToken, badge, tokenRequests, loginPc, logoutPc, loggedOut>>

\* initialize() of usePushNotification throws (getStoredFcmToken rejects): the catch
\* block sets isInitialized all the same
PushInitFailed ==
  /\ ~isPushInitialized
  /\ isPushInitialized' = TRUE
  /\ dirty' = TRUE
  /\ effectDue' = TRUE
  /\ UNCHANGED <<isAppReady, isReady, mounted, linkVars, gateVars, outVars, msgs,
                 webVars, resolveVars, navVars, permVars, pageVars, errVars, kakaoVars, backVars,
                 isDevice, fcmToken, storedToken, badge, tokenRequests, loginPc, logoutPc,
                 loggedOut>>

\* getInitialUrl: Linking.getInitialURL() resolves with url (NoUrl for null)
InitialUrl(url) ==
  /\ ~isReady
  /\ LET r == processUrl(deepLink, processedUrls, url)
     IN  /\ deepLink' = r.link
         /\ processedUrls' = r.seen
  /\ submitted' = Bump(submitted, url)
  /\ isReady' = TRUE
  /\ dirty' = TRUE
  /\ UNCHANGED <<isAppReady, isPushInitialized, mounted, urlEvents, navTriggered,
                 gateVars, outVars, msgs, webVars, resolveVars, extraVars>>

\* getInitialUrl: Linking.getInitialURL() rejects
InitialUrlRejected ==
  /\ ~isReady
  /\ isReady' = TRUE
  /\ dirty' = TRUE
  /\ UNCHANGED <<isAppReady, isPushInitialized, mounted, linkVars, gateVars, outVars,
                 msgs, webVars, resolveVars, extraVars>>

\* the 'url' listener of useDeepLink
UrlEvent(url) ==
  /\ urlEvents < MaxUrlEvents
  /\ urlEvents' = urlEvents + 1
  /\ LET r == processUrl(deepLink, processedUrls, url)
     IN  /\ deepLink' = r.link
         /\ processedUrls' = r.seen
         /\ dirty' = (dirty \/ r.changed)
  /\ submitted' = Bump(submitted, url)
  /\ UNCHANGED <<isAppReady, isReady, isPushInitialized, mounted, navTriggered,
                 gateVars, outVars, msgs, webVars, resolveVars, extraVars>>

\* a splash guard that waits for prepare() only
ShouldMountWhenAppReady(appReady, linkReady, pushReady) == appReady

\* the splash guard of App: WebViewContainer is rendered only when all three are set
ShouldMount(appReady, linkReady, pushReady) == appReady /\ linkReady /\ pushReady

\* the deepLinkPath effect of WebViewContainer: it injects when the prop is set and
\* the WebView ref exists
ContainerNavigates(path, hasRef) == path # NoPath /\ hasRef

\* the deep link effect of App: it runs navigateTo and clearDeepLink
AppEffectRuns(path, linkReady) == path # NoPath /\ linkReady

\* One render with its effects: child effect (WebViewContainer) before parent effect
\* (App).  navigateTo is a no-op while the container is not rendered.
Commit ==
  /\ dirty
  /\ dirty' = FALSE
  /\ mounted' = ShouldMount(isAppReady, isReady, isPushInitialized)
  /\ LET path == deepLink.webViewPath
         s1 == IF ContainerNavigates(path, mounted')
               THEN <<NavScript("deepLinkPath", WEBVIEW_BASE \o path, genCount + 1,
                                isWebViewInteractive)>>
               ELSE <<>>
         s2 == IF AppEffectRuns(path, isReady) /\ mounted'
               THEN <<NavScript("navigateTo", path, genCount + Len(s1) + 1,
                                isWebViewInteractive)>>
               ELSE <<>>
         out == s1 \o s2
     IN  /\ injected' = injected \o LogEntries(out, isWebViewInteractive, FALSE)
         /\ genCount' = genCount + Len(out)
         /\ navTriggered' =
              IF deepLink.url \in DOMAIN navTriggered
              THEN [navTriggered EXCEPT ![deepLink.url] = @ + Len(out)]
              ELSE navTriggered
         /\ deepLink' = IF AppEffectRuns(path, isReady) THEN NoDeepLink ELSE deepLink
  /\ UNCHANGED <<isAppReady, isReady, isPushInitialized, processedUrls, urlEvents,
                 submitted, gateVars, messageQueue, msgs, webVars, resolveVars, extraVars>>

(***************************************************************************)
(* WebViewContainer: the interactive gate and the message queue            *)
(***************************************************************************)
IsBackground(state) == state \in {"inactive", "background"}

\* a stabilization test that does not look at the app state
StabilizationIgnoresAppState(state, loaded) == loaded

\* the test of the stabilization timer's callback
StabilizationPasses(state, loaded) == state = "active" /\ loaded

\* the test of onLoadEnd
LoadEndActivates(state) == state = "active"

\* a test that sends every response to the queue
NeverInjectNow(interactive, hasRef) == FALSE

\* the test of sendNativeResponse: inject now, or queue
CanInjectNow(interactive, hasRef) == interactive /\ hasRef

\* a drain that takes the newest entry first (messageQueue.pop())
RECURSIVE PopAll(_)
PopAll(queue) ==
  IF queue = <<>> THEN <<>> ELSE <<queue[Len(queue)]>> \o PopAll(SubSeq(queue, 1, Len(queue) - 1))

\* a drain that hands over the oldest entry only
ShiftOne(queue) == IF queue = <<>> THEN <<>> ELSE <<Head(queue)>>

\* processMessageQueue: the scripts in the order messageQueue.shift() yields them
RECURSIVE ShiftAll(_)
ShiftAll(queue) == IF queue = <<>> THEN <<>> ELSE <<Head(queue)>> \o ShiftAll(Tail(queue))

\* processMessageQueue, run with the flag already set: every queued script is injected
processMessageQueue ==
  IF mounted /\ messageQueue # <<>>
  THEN LET out == ShiftAll(messageQueue)
           w == RunScripts([pending |-> pendingRequests, log |-> settleLog], out)
       IN  /\ messageQueue' = <<>>
           /\ injected' = injected \o LogEntries(out, TRUE, TRUE)
           /\ pendingRequests' = w.pending
           /\ settleLog' = w.log
  ELSE UNCHANGED <<messageQueue, injected, webVars>>

\* AppState 'change' listener.  Before the container is rendered only the OS state
\* changes, which the container's appState ref starts from.
AppStateChange(next) ==
  /\ next # appState
  /\ appState' = next
  /\ IF ~mounted
     THEN UNCHANGED <<isWebViewInteractive, timers, sinceForeground>>
     ELSE IF IsBackground(appState) /\ next = "active"
          THEN /\ Len(timers) < MaxTimers
               /\ timers' = Append(timers, SettleDelay)
               /\ sinceForeground' = 0
               /\ UNCHANGED isWebViewInteractive
          ELSE IF IsBackground(next)
               THEN /\ isWebViewInteractive' = FALSE
                    /\ UNCHANGED <<timers, sinceForeground>>
               ELSE UNCHANGED <<isWebViewInteractive, timers, sinceForeground>>
  /\ UNCHANGED <<appVars, linkVars, load, msgSeen, isWebViewLoaded, outVars, msgs,
                 webVars, resolveVars, extraVars>>

Max(a, b) == IF a > b THEN a ELSE b
Min(a, b) == IF a < b THEN a ELSE b

\* TickMs of time pass; a timer that is due runs before more time passes
Tick ==
  /\ \/ sinceForeground < SettleDelay
     \/ \E k \in 1..Len(timers) : timers[k] > 0
  /\ \A k \in 1..Len(timers) : timers[k] > 0
  /\ sinceForeground' = Min(SettleDelay, sinceForeground + TickMs)
  /\ timers' = [k \in 1..Len(timers) |-> Max(0, timers[k] - TickMs)]
  /\ UNCHANGED <<appVars, linkVars, appState, load, msgSeen, isWebViewLoaded,
                 isWebViewInteractive, outVars, msgs, webVars, resolveVars, extraVars>>

\* the callback of the oldest stabilization timer, once due
TimerFire ==
  /\ timers # <<>>
  /\ Head(timers) = 0
  /\ timers' = Tail(timers)
  /\ IF StabilizationPasses(appState, isWebViewLoaded)
     THEN /\ isWebViewInteractive' = TRUE
          /\ processMessageQueue
     ELSE UNCHANGED <<isWebViewInteractive, messageQueue, injected, webVars>>
  /\ UNCHANGED <<appVars, linkVars, appState, load, msgSeen, isWebViewLoaded,
                 sinceForeground, genCount, msgs, resolveVars, extraVars>>

\* onLoadStart: a page load begins; the new page starts with an empty
\* window._pendingRequests
LoadStart ==
  /\ mounted
  /\ load' = "loading"
  /\ msgSeen' = FALSE
  /\ isWebViewLoaded' = FALSE
  /\ isWebViewInteractive' = FALSE
  /\ pendingRequests' = <<>>
  /\ UNCHANGED <<appVars, linkVars, appState, timers, sinceForeground, outVars, msgs,
                 settleLog, resolveVars, extraVars>>

\* onLoadEnd
LoadEnd ==
  /\ mounted
  /\ load = "loading"
  /\ load' = "ended"
  /\ isWebViewLoaded' = TRUE
  /\ IF LoadEndActivates(appState)
     THEN /\ isWebViewInteractive' = TRUE
          /\ processMessageQueue
     ELSE UNCHANGED <<isWebViewInteractive, messageQueue, injected, webVars>>
  /\ UNCHANGED <<appVars, linkVars, appState, msgSeen, timers, sinceForeground,
                 genCount, msgs, resolveVars, extraVars>>

(***************************************************************************)
(* WebViewContainer: the bridge dispatcher                                 *)
(***************************************************************************)
\* What a step of handleMessage hands to the WebView: scripts injected at once and
\* scripts appended to the message queue
NoOutput == [direct |-> <<>>, queue |-> <<>>]

\* sendNativeResponse: inject when interactive, queue otherwise
\* a sendNativeResponse that looks at the app state instead of the interactive flag
sendNativeResponseWhenActive(requestId, success, data, error) ==
  LET script == ResponseScript(NativeResponse(requestId, success, data, error),
                               genCount + 1, isWebViewInteractive)
  IN  IF mounted /\ appState = "active"
      THEN [direct |-> <<script>>, queue |-> <<>>]
      ELSE [direct |-> <<>>, queue |-> <<script>>]

sendNativeResponse(requestId, success, data, error) ==
  LET script == ResponseScript(NativeResponse(requestId, success, data, error),
                               genCount + 1, isWebViewInteractive)
  IN  IF CanInjectNow(isWebViewInteractive, mounted)
      THEN [direct |-> <<script>>, queue |-> <<>>]
      ELSE [direct |-> <<>>, queue |-> <<script>>]

\* sendResultToWebView: inject whenever the WebView ref exists
sendResultToWebView(type, result) ==
  IF mounted
  THEN [direct |-> <<ResultScript(type, result, genCount + 1, isWebViewInteractive)>>,
        queue |-> <<>>]
  ELSE NoOutput

\* sendFlutterResponse of the legacy container: no gate and no queue, the response is
\* injected when the WebView ref exists and dropped otherwise
sendFlutterResponse(requestId, success, data, error) ==
  IF mounted
  THEN [direct |-> <<ResponseScript(FlutterResponse(requestId, success, data, error),
                                    genCount + 1, isWebViewInteractive)>>,
        queue |-> <<>>]
  ELSE NoOutput

\* the requestId response of the container generation that runs
sendResponse(requestId, success, data, error) ==
  IF variant = "legacy"
  THEN sendFlutterResponse(requestId, success, data, error)
  ELSE sendNativeResponse(requestId, success, data, error)

\* if (requestId) sendNativeResponse(...) else sendResultToWebView(...)
Reply(requestId, success, data, error, type) ==
  IF requestId # 0
  THEN sendResponse(requestId, success, data, error)
  ELSE sendResultToWebView(type, data)

\* if (requestId) sendNativeResponse(...)
ReplyIfAsked(requestId, success, data, error) ==
  IF requestId # 0 THEN sendResponse(requestId, success, data, error) ELSE NoOutput

ResultType(action) ==
  CASE action = "pickImage" -> "pickImageResult"
    [] action = "showImagePicker" -> "imagePickerResult"
    [] action = "pickImageFromCamera" -> "cameraResult"
    [] action = "pickImageFromGallery" -> "galleryResult"
    [] action = "checkPermission" -> "permissionResult"
    [] action = "getFcmToken" -> "fcmTokenResult"
    [] OTHER -> ""

\* the whole of handleMessage sits in try/catch: nothing escapes it
Escapes(threw) == FALSE

\* a dispatcher whose default case answers with a failure
OnReceiveAnswersUnknown(action, arg, requestId) ==
  [out |-> Reply(requestId, FALSE, Null, "unknown action", ""), phase |-> "done"]

\* the synchronous part of handleMessage, up to its first await or its end
OnReceive(action, arg, requestId) ==
  CASE action = "pickImage" /\ arg = "nosource" ->
         [out |-> Reply(requestId, FALSE, Null, "source is required (camera or gallery)",
                        "pickImageResult"),
          phase |-> "done"]
    [] action = "showImagePicker" ->
         [out |-> Reply(requestId, TRUE, UseWebUI, Undefined, "imagePickerResult"),
          phase |-> "done"]
    [] action = "shareKakao" /\ arg = "invalid" ->
         [out |-> ReplyIfAsked(requestId, FALSE, Null, "Invalid share data"),
          phase |-> "done"]
    [] \/ action = "checkPermission" /\ arg \in {"nodata", "notype"}
       \/ action = "notifyLoginSuccess" /\ arg = "notoken"
       \/ action = "notifyLogout"
       \/ action \in {"downloadFile", "openExternalLink", "shareContent"} /\ arg = "nodata"
       \/ action \notin Actions \ {"bogusAction"} ->
         [out |-> NoOutput, phase |-> "done"]
    [] OTHER -> [out |-> NoOutput, phase |-> "await"]

\* a legacy container that treats every message as the current one does
OnReceiveLegacyAsCurrent(action, arg, requestId) == OnReceive(action, arg, requestId)

\* the synchronous part of the legacy handleMessage: pickImage without a source and
\* showImagePicker await the action sheet, notifyLoginSuccess awaits getFcmToken
\* whenever it has data; the other cases as in the current container
OnReceiveLegacy(action, arg, requestId) ==
  IF \/ action = "pickImage" /\ arg = "nosource"
     \/ action = "showImagePicker"
     \/ action = "notifyLoginSuccess"
  THEN [out |-> NoOutput, phase |-> "await"]
  ELSE OnReceive(action, arg, requestId)

\* the first platform operation a message awaits
FirstCall(action, arg) ==
  CASE action = "pickImage" /\ arg = "nosource" -> [api |-> "showImagePickerActionSheet"]
    [] action = "pickImage" -> [api |-> "pickImage", source |-> arg]
    [] action = "showImagePicker" -> [api |-> "showImagePickerActionSheet"]
    [] action = "notifyLoginSuccess" -> [api |-> "getFcmToken"]
    [] action = "openExternalLink" -> [api |-> "Linking.canOpenURL"]
    [] action = "shareContent" -> [api |-> "Share.share"]
    [] action = "shareKakao" -> [api |-> "shareKakaoFeed"]
    [] OTHER -> [api |-> action]

\* the platform operation awaited after the first one settled with outcome
SecondCall(m, outcome) ==
  CASE m.action = "notifyLoginSuccess" ->
         [api |-> "syncFcmTokenToServer", fcmToken |-> Token, accessToken |-> m.arg]
    [] m.action = "openExternalLink" -> [api |-> "Linking.openURL"]
    [] OTHER -> [api |-> "Share.share"]

\* outcomes of the operation a message first awaits
OutcomesOf(action) ==
  CASE action \in {"pickImage", "pickImageFromCamera", "pickImageFromGallery",
                   "showImagePicker"} -> PickOutcomes
    [] action = "checkPermission" -> PermissionStatuses
    [] action \in {"getFcmToken", "notifyLoginSuccess"} -> {"token", "null", "throws"}
    [] action = "openExternalLink" -> {"supported", "unsupported", "throws"}
    [] OTHER -> {"ok", "throws"}

SourceOf(action, arg) ==
  CASE action = "pickImageFromCamera" -> "camera"
    [] action = "pickImageFromGallery" -> "gallery"
    [] arg \in {"nosource", "-"} -> "actionSheet"
    [] OTHER -> arg

\* the platform calls made inside the bridge function a picker message awaited (the
\* choice made in the legacy action sheet is not followed)
PlatformCalls(m, outcome) ==
  IF m.action \in {"pickImage", "pickImageFromCamera", "pickImageFromGallery"}
     /\ SourceOf(m.action, m.arg) \in {"camera", "gallery"}
  THEN pickImageCalls(SourceOf(m.action, m.arg), outcome)
  ELSE <<>>

\* a first step that reports success whatever the operation returned
OnFirstAlwaysSucceeds(m, outcome, errMsg) ==
  [out |-> ReplyIfAsked(m.requestId, TRUE, IF outcome = "token" THEN Token ELSE Null,
                        Undefined),
   phase |-> "done"]

\* handleMessage resumed after its first await
OnFirst(m, outcome, errMsg) ==
  CASE m.action \in {"pickImage", "pickImageFromCamera", "pickImageFromGallery"} ->
         LET result == pickImageResult(SourceOf(m.action, m.arg), outcome)
         IN  [out |-> Reply(m.requestId, result # Null, result, Undefined,
                            ResultType(m.action)),
              phase |-> "done"]
    [] m.action = "checkPermission" ->
         [out |-> Reply(m.requestId, TRUE, checkPermission(outcome), Undefined,
                        "permissionResult"),
          phase |-> "done"]
    [] m.action = "getFcmToken" ->
         IF outcome = "throws"
         THEN [out |-> ReplyIfAsked(m.requestId, FALSE, Null, errMsg), phase |-> "done"]
         ELSE LET token == IF outcome = "token" THEN Token ELSE Null
              IN  [out |-> Reply(m.requestId, token # Null, token, Undefined,
                                 "fcmTokenResult"),
                   phase |-> "done"]
    [] m.action = "showImagePicker" ->
         LET result == pickImageResult(SourceOf(m.action, m.arg), outcome)
         IN  [out |-> Reply(m.requestId, result # Null, result, Undefined,
                            "imagePickerResult"),
              phase |-> "done"]
    [] m.action = "notifyLoginSuccess" ->
         [out |-> NoOutput,
          phase |-> IF outcome = "token" /\ m.arg = "accessToken" THEN "await2" ELSE "done"]
    [] m.action = "openExternalLink" ->
         [out |-> NoOutput, phase |-> IF outcome = "supported" THEN "await2" ELSE "done"]
    [] m.action = "shareKakao" ->
         IF outcome = "throws"
         THEN [out |-> NoOutput, phase |-> "await2"]
         ELSE [out |-> ReplyIfAsked(m.requestId, TRUE, ShareResult(FALSE), Undefined),
               phase |-> "done"]
    [] OTHER -> [out |-> NoOutput, phase |-> "done"]

\* a second step that never answers
OnSecondSilent(m, outcome) == [out |-> NoOutput, phase |-> "done"]

\* a second step that reports every failure to the page
OnSecondReportsFailure(m, outcome) ==
  IF outcome = "throws"
  THEN [out |-> ReplyIfAsked(m.requestId, FALSE, Null, m.err), phase |-> "done"]
  ELSE [out |-> ReplyIfAsked(m.requestId, TRUE, ShareResult(TRUE), Undefined),
        phase |-> "done"]

\* handleMessage resumed after its second await: syncFcmTokenToServer, Linking.openURL,
\* or the Share.share fallback of shareKakao
OnSecond(m, outcome) ==
  IF m.action = "shareKakao"
  THEN IF outcome = "throws"
       THEN [out |-> ReplyIfAsked(m.requestId, FALSE, Null, m.err), phase |-> "done"]
       ELSE [out |-> ReplyIfAsked(m.requestId, TRUE, ShareResult(TRUE), Undefined),
             phase |-> "done"]
  ELSE [out |-> NoOutput, phase |-> "done"]

\* hand the output of a step to the WebView or the queue; pend is the pending table
\* of the page at that moment
Deliver(out, pend) ==
  LET w == RunScripts([pending |-> pend, log |-> settleLog], out.direct)
  IN  /\ injected' = injected \o LogEntries(out.direct, isWebViewInteractive, FALSE)
      /\ messageQueue' = messageQueue \o out.queue
      /\ genCount' = genCount + Len(out.direct) + Len(out.queue)
      /\ pendingRequests' = w.pending
      /\ settleLog' = w.log

\* onMessage: message number i arrives (requestId 0: none) and handleMessage runs up
\* to its first await.  A message with a requestId was entered in
\* window._pendingRequests by the page that sent it.
Receive(i, action, arg, requestId) ==
  /\ mounted
  /\ load # "none"
  /\ msgs[i].phase = "idle"
  /\ \A j \in 1..(i-1) : msgs[j].phase # "idle"
  /\ isWebViewLoaded' = (isWebViewLoaded \/ variant = "current")
  /\ msgSeen' = TRUE
  /\ LET r == IF variant = "legacy" THEN OnReceiveLegacy(action, arg, requestId)
              ELSE OnReceive(action, arg, requestId)
     IN  /\ msgs' = [msgs EXCEPT ![i] =
                       [action |-> action, arg |-> arg, requestId |-> requestId,
                        phase |-> r.phase, threw |-> FALSE, threw2 |-> FALSE,
                        err |-> "",
                        escaped |-> Escapes(FALSE),
                        calls |-> IF r.phase = "await"
                                  THEN <<FirstCall(action, arg)>> ELSE <<>>,
                        outcome |-> "-", platform |-> <<>>]]
         /\ Deliver(r.out, IF requestId # 0 THEN Append(pendingRequests, requestId)
                           ELSE pendingRequests)
  /\ UNCHANGED <<appVars, linkVars, appState, load, isWebViewInteractive, timers,
                 sinceForeground, resolveVars, extraVars>>

\* the first awaited operation of message i settles
CompleteFirst(i, outcome, errMsg) ==
  /\ msgs[i].phase = "await"
  /\ outcome \in OutcomesOf(msgs[i].action)
  /\ outcome # "throws" => errMsg = ""
  /\ LET r == OnFirst(msgs[i], outcome, errMsg)
     IN  /\ msgs' = [msgs EXCEPT ![i].phase = r.phase,
                                 ![i].threw = (outcome = "throws"),
                                 ![i].err = errMsg,
                                 ![i].escaped = Escapes(outcome = "throws"),
                                 ![i].calls = IF r.phase = "await2"
                                              THEN Append(@, SecondCall(msgs[i], outcome))
                                              ELSE @,
                                 ![i].outcome = outcome,
                                 ![i].platform = PlatformCalls(msgs[i], outcome)]
         /\ Deliver(r.out, pendingRequests)
  /\ UNCHANGED <<appVars, linkVars, gateVars, resolveVars, extraVars>>

\* the second awaited operation of message i settles
CompleteSecond(i, outcome) ==
  /\ msgs[i].phase = "await2"
  /\ LET r == OnSecond(msgs[i], outcome)
     IN  /\ msgs' = [msgs EXCEPT ![i].phase = r.phase,
                                 ![i].threw = (@ \/ outcome = "throws"),
                                 ![i].threw2 = (outcome = "throws"),
                                 ![i].escaped = Escapes(outcome = "throws")]
         /\ Deliver(r.out, pendingRequests)
  /\ UNCHANGED <<appVars, linkVars, gateVars, resolveVars, extraVars>>

(***************************************************************************)
(* WebViewContainer: navigation interception                               *)
(***************************************************************************)
\* url.startsWith(prefix) and url.includes(part) on token sequences
UrlStartsWith(url, prefix) ==
  Len(url) >= Len(prefix) /\ SubSeq(url, 1, Len(prefix)) = prefix

UrlIncludes(url, part) ==
  \E i \in 1..(Len(url) - Len(part) + 1) : SubSeq(url, i, i + Len(part) - 1) = part

BACKEND_ORIGIN == <<"https://", "dev.api.camter.co.kr">>

\* navigation targets the WebView asks about
NavUrls ==
  { <<"tel:", "0212345678">>,
    <<"mailto:", "help@camter.co.kr">>,
    <<"mailto:", "help@camter.co.kr", "?body=", "play.google.com">>,
    <<"sms:", "0212345678">>,
    <<"https://", "dev.api.camter.co.kr", "/oauth2/", "apple", "/authorize">>,
    <<"https://", "dev.api.camter.co.kr", "/oauth2/", "naver", "/authorize">>,
    <<"https://", "appleid.apple.com", "/auth", "/authorize", "?redirect_uri=",
      "https://", "dev.api.camter.co.kr", "/oauth2/", "apple", "/callback">>,
    <<"https://", "camter-client.vercel.app", "/home">>,
    <<"kakao", "link://", "send">>,
    <<"intent://", "pay", "#Intent;", "package=", "viva.republica.toss">>,
    <<"market://", "details">> }

\* what one call of the handler does: its return value, the URLs handed to
\* Linking.openURL, the source it sets (NoSource: none), an app launch
NoSource == [uri |-> NoUrl, origin |-> FALSE]

Decision(allow, opened, source, launched) ==
  [allow |-> allow, opened |-> opened, setSource |-> source, launched |-> launched]

IsBackendOAuthAuthorize(url) ==
  /\ UrlStartsWith(url, BACKEND_ORIGIN)
  /\ UrlIncludes(url, <<"/oauth2/">>)
  /\ UrlIncludes(url, <<"/authorize">>)

\* a header test that never finds the header
NeverHasOriginHeader(source) == FALSE

\* webviewSource.headers?.['Origin'] === targetOrigin
HasOriginHeader(source) == source.origin

IsStoreUrl(url) ==
  \/ UrlStartsWith(url, <<"market://">>)
  \/ UrlStartsWith(url, <<"itms-apps://">>)
  \/ UrlIncludes(url, <<"play.google.com">>)
  \/ UrlIncludes(url, <<"apps.apple.com">>)

IsKakaoUrl(url) == UrlStartsWith(url, <<"kakao", "link://">>) \/ UrlStartsWith(url, <<"kakao">>)

IsTossUrl(url) == UrlStartsWith(url, <<"supertoss://">>) \/ UrlStartsWith(url, <<"tosspayments://">>)

IsContactUrl(url) ==
  \/ UrlStartsWith(url, <<"tel:">>)
  \/ UrlStartsWith(url, <<"mailto:">>)
  \/ UrlStartsWith(url, <<"sms:">>)

\* a handler that lets the WebView load everything
AllowEverything(url, source, isAppLink) == Decision(TRUE, <<>>, NoSource, FALSE)

\* handleShouldStartLoadWithRequest of the current container; isAppLink is the
\* answer of ConvertUrl.isAppLink()
handleShouldStartLoadWithRequest(url, source, isAppLink) ==
  IF IsBackendOAuthAuthorize(url) /\ ~HasOriginHeader(source)
  THEN Decision(FALSE, <<>>, [uri |-> url, origin |-> TRUE], FALSE)
  ELSE IF UrlStartsWith(url, <<"intent://">>) THEN Decision(FALSE, <<>>, NoSource, isAppLink)
  ELSE IF IsKakaoUrl(url) \/ IsTossUrl(url) \/ IsStoreUrl(url) \/ IsContactUrl(url)
       THEN Decision(FALSE, <<url>>, NoSource, FALSE)
  ELSE Decision(TRUE, <<>>, NoSource, FALSE)

\* the intent:// pattern of the legacy container: #Intent; followed by package=<name>
IntentPackage(url) ==
  IF \E i, j \in 1..Len(url) : i < j /\ j < Len(url) /\ url[i] = "#Intent;" /\ url[j] = "package="
  THEN LET j == CHOOSE k \in 1..Len(url) :
                  /\ k < Len(url) /\ url[k] = "package="
                  /\ \E i \in 1..(k - 1) : url[i] = "#Intent;"
                  /\ \A m \in 1..(k - 1) :
                       ~(url[m] = "package=" /\ \E i \in 1..(m - 1) : url[i] = "#Intent;")
       IN  <<"market://", "details", "?id=", url[j + 1]>>
  ELSE NoUrl

\* handleShouldStartLoadWithRequest of the legacy container
handleShouldStartLoadLegacy(url, source, isAppLink) ==
  IF IsKakaoUrl(url) \/ IsTossUrl(url) \/ IsStoreUrl(url)
  THEN Decision(FALSE, <<url>>, NoSource, FALSE)
  ELSE IF UrlStartsWith(url, <<"intent://">>)
       THEN Decision(FALSE, IF IntentPackage(url) # NoUrl THEN <<IntentPackage(url)>> ELSE <<>>,
                     NoSource, FALSE)
  ELSE IF IsContactUrl(url) THEN Decision(FALSE, <<url>>, NoSource, FALSE)
  ELSE Decision(TRUE, <<>>, NoSource, FALSE)

ShouldStart(v, url, source, isAppLink) ==
  IF v = "current" THEN handleShouldStartLoadWithRequest(url, source, isAppLink)
  ELSE handleShouldStartLoadLegacy(url, source, isAppLink)

\* one call of the handler, with the state update it makes.  setWebviewSource
\* re-renders the container with the new source, which makes the WebView start a
\* load of it; viaSource tells that the call was made for such a load
CallHandler(url, isAppLink, viaSource) ==
  LET d == ShouldStart(variant, url, webviewSource, isAppLink)
  IN  /\ navLog' = Append(navLog, [url |-> url, allow |-> d.allow, opened |-> d.opened,
                                   reissue |-> (d.setSource # NoSource),
                                   launched |-> d.launched, viaSource |-> viaSource,
                                   asked |-> TRUE])
      /\ webviewSource' = IF d.setSource # NoSource THEN d.setSource ELSE webviewSource
      /\ pendingLoad' = IF d.setSource # NoSource THEN d.setSource.uri
                        ELSE IF viaSource THEN NoUrl ELSE pendingLoad

\* the page or the user starts a navigation to url
NavAttempt(url, isAppLink) ==
  /\ Len(navLog) < MaxNavs
  /\ isAppLink => UrlStartsWith(url, <<"intent://">>)
  /\ CallHandler(url, isAppLink, FALSE)
  /\ UNCHANGED <<variant, appAllButNav, permVars, pageVars, pushVars, errVars, kakaoVars, backVars, resolveVars>>

\* the WebView starts the load of a new source and asks the handler (iOS)
SourceLoadAsked ==
  /\ pendingLoad # NoUrl
  /\ CallHandler(pendingLoad, FALSE, TRUE)
  /\ UNCHANGED <<variant, appAllButNav, permVars, pageVars, pushVars, errVars, kakaoVars, backVars, resolveVars>>

\* the WebView starts the load of a new source without asking the handler (Android:
\* shouldOverrideUrlLoading is not called for loads the host starts)
SourceLoadUnasked ==
  /\ pendingLoad # NoUrl
  /\ navLog' = Append(navLog, [url |-> pendingLoad, allow |-> TRUE, opened |-> <<>>,
                               reissue |-> FALSE, launched |-> FALSE, viaSource |-> TRUE,
                               asked |-> FALSE])
  /\ pendingLoad' = NoUrl
  /\ UNCHANGED <<variant, webviewSource, appAllButNav, permVars, pageVars, pushVars, errVars, kakaoVars, backVars, resolveVars>>

(***************************************************************************)
(* webviewBridge: permissions and pickers against the platform             *)
(***************************************************************************)
PlatformStatuses == {"undetermined", "granted", "denied"}

\* the platform calls checkPermission makes for a type: the getter, once
checkPermissionCalls(type) == <<Getter(type)>>

\* checkPermission(permissionType): reads the status, or catches the getter's error
CheckPermission(type, throws) ==
  /\ Len(permLog) < MaxPermOps
  /\ LET status == IF throws THEN "throws" ELSE permStatus[type] IN
       permLog' = Append(permLog,
         [op |-> "checkPermission", type |-> type, status |-> status,
          result |-> checkPermission(status), calls |-> checkPermissionCalls(type)])
  /\ UNCHANGED <<permStatus, appAllButNav, navVars, pageVars, pushVars, errVars, kakaoVars, backVars, resolveVars>>

\* pickImage(source): requests the permission (the user may be asked and answer),
\* then launches the picker when it was granted
PickImage(source, outcome) ==
  LET type == PermissionOf(source) IN
  /\ Len(permLog) < MaxPermOps
  /\ outcome = "denied" => permStatus[type] # "granted"
  /\ permStatus' =
       CASE outcome = "throws" -> permStatus
         [] outcome = "denied" -> [permStatus EXCEPT ![type] = "denied"]
         [] OTHER -> [permStatus EXCEPT ![type] = "granted"]
  /\ permLog' = Append(permLog,
       [op |-> "pickImage", type |-> type, status |-> permStatus'[type],
        result |-> pickImageResult(source, outcome),
        calls |-> pickImageCalls(source, outcome)])
  /\ UNCHANGED <<appAllButNav, navVars, pageVars, pushVars, errVars, kakaoVars, backVars, resolveVars>>

\* the user changes a permission in the system settings
SettingsChange(type, status) ==
  /\ permStatus[type] # status
  /\ status # "undetermined"
  /\ permStatus' = [permStatus EXCEPT ![type] = status]
  /\ UNCHANGED <<permLog, appAllButNav, navVars, pageVars, pushVars, errVars, kakaoVars, backVars, resolveVars>>

(***************************************************************************)
(* Web page: bridge requests and the calls of its response handlers        *)
(***************************************************************************)
\* requestIds a response may carry: the ones the page can generate and one it never does
ResponseIds == 1..(MaxRequests + 1)

pageRest == <<appVars, linkVars, gateVars, outVars, msgs, resolveVars, navVars, permVars,
              pushVars, errVars, kakaoVars, backVars>>

\* a bridge wrapper (pickImage, getFcmToken, ...): generateRequestId and a new entry
\* of window._pendingRequests
PageRequest ==
  /\ reqCount < MaxRequests
  /\ reqCount' = reqCount + 1
  /\ pendingRequests' = Append(pendingRequests, reqCount + 1)
  /\ UNCHANGED <<settleLog, webCalls, pageRest>>

\* the script of sendNativeResponse runs: window.handleFlutterResponse(response)
CallFlutterResponse(rid, success) ==
  /\ Len(webCalls) < MaxWebCalls
  /\ LET script == [kind |-> "response", requestId |-> rid, success |-> success,
                    data |-> IF success THEN Token ELSE Null]
         web == handleFlutterResponse([pending |-> pendingRequests, log |-> settleLog],
                                      script)
     IN /\ pendingRequests' = web.pending
        /\ settleLog' = web.log
  /\ webCalls' = Append(webCalls, [fn |-> "handleFlutterResponse", requestId |-> rid])
  /\ UNCHANGED <<reqCount, pageRest>>

\* the script of sendResultToWebView runs: the type-based handler
CallResponseByType ==
  /\ Len(webCalls) < MaxWebCalls
  /\ LET script == [kind |-> "result", data |-> UseWebUI]
         web == handleNativeResponseByType([pending |-> pendingRequests, log |-> settleLog],
                                           script)
     IN /\ pendingRequests' = web.pending
        /\ settleLog' = web.log
  /\ webCalls' = Append(webCalls, [fn |-> "handleNativeResponseByType", requestId |-> 0])
  /\ UNCHANGED <<reqCount, pageRest>>

(***************************************************************************)
(* usePushNotification: the cached token, the badge, login and logout      *)
(***************************************************************************)
pushRest == <<appVars, linkVars, gateVars, outVars, msgs, webVars, resolveVars, navVars,
              permVars, pageVars, errVars, kakaoVars, backVars>>

\* outcomes of getFcmToken of fcmService
TokenOutcomes == {"token", "null", "throws"}

\* the condition of the token request effect
ShouldRequestToken(initialized, token, device) == initialized /\ token = Null /\ device

\* the token request effect: it runs after a render in which isInitialized or fcmToken
\* changed and calls requestPermission, which awaits getFcmToken on a real device
TokenEffect ==
  /\ effectDue
  /\ tokenRequests < MaxTokenRequests
  /\ effectDue' = FALSE
  /\ tokenRequests' = IF ShouldRequestToken(isPushInitialized, fcmToken, isDevice)
                      THEN tokenRequests + 1 ELSE tokenRequests
  /\ UNCHANGED <<isDevice, fcmToken, storedToken, badge, loginPc, logoutPc, loggedOut,
                 pushRest>>

\* requestPermission resumed: setFcmToken(token) when getFcmToken returned one
AfterGetFcmToken(outcome) ==
  /\ fcmToken' = IF outcome = "token" THEN Token ELSE fcmToken
  /\ storedToken' = IF outcome = "token" THEN Token ELSE storedToken
  /\ effectDue' = (effectDue \/ fcmToken' # fcmToken)

\* getFcmToken settles for a requestPermission call of the effect
TokenRequestSettles(outcome) ==
  /\ tokenRequests > 0
  /\ tokenRequests' = tokenRequests - 1
  /\ AfterGetFcmToken(outcome)
  /\ UNCHANGED <<isDevice, badge, loginPc, logoutPc, loggedOut, pushRest>>

\* handleLoginSuccess(accessToken): without a token it first awaits requestPermission
\* (which returns at once on a simulator), then syncTokenWithServer
HandleLoginSuccess ==
  /\ loginPc = "idle"
  /\ loginPc' = IF fcmToken = Null /\ isDevice THEN "request" ELSE "sync"
  /\ loggedOut' = "no"
  /\ UNCHANGED <<isDevice, fcmToken, storedToken, badge, effectDue, tokenRequests,
                 logoutPc, pushRest>>

\* getFcmToken settles for the requestPermission call of handleLoginSuccess
LoginRequestSettles(outcome) ==
  /\ loginPc = "request"
  /\ loginPc' = "sync"
  /\ AfterGetFcmToken(outcome)
  /\ UNCHANGED <<isDevice, badge, tokenRequests, logoutPc, loggedOut, pushRest>>

\* syncTokenWithServer settles (it catches its own errors)
LoginSyncSettles ==
  /\ loginPc = "sync"
  /\ loginPc' = "idle"
  /\ UNCHANGED <<isDevice, fcmToken, storedToken, badge, effectDue, tokenRequests,
                 logoutPc, loggedOut, pushRest>>

\* handleLogout is called: it awaits clearFcmToken
HandleLogout ==
  /\ logoutPc = "idle"
  /\ logoutPc' = "clearFcmToken"
  /\ loggedOut' = "pending"
  /\ UNCHANGED <<isDevice, fcmToken, storedToken, badge, effectDue, tokenRequests,
                 loginPc, pushRest>>

\* clearFcmToken settles: the stored token is gone, setFcmToken(null), and clearBadge
\* is awaited; a rejection ends handleLogout
LogoutTokenCleared(throws) ==
  /\ logoutPc = "clearFcmToken"
  /\ logoutPc' = IF throws THEN "idle" ELSE "clearBadge"
  /\ storedToken' = IF throws THEN storedToken ELSE Null
  /\ fcmToken' = IF throws THEN fcmToken ELSE Null
  /\ effectDue' = (effectDue \/ fcmToken' # fcmToken)
  /\ loggedOut' = IF throws THEN "no" ELSE loggedOut
  /\ UNCHANGED <<isDevice, badge, tokenRequests, loginPc, pushRest>>

\* clearBadge settles: handleLogout completes unless clearBadge rejected
LogoutBadgeCleared(throws) ==
  /\ logoutPc = "clearBadge"
  /\ logoutPc' = "idle"
  /\ badge' = IF throws THEN badge ELSE 0
  /\ loggedOut' = IF loggedOut = "pending" /\ ~throws THEN "yes" ELSE "no"
  /\ UNCHANGED <<isDevice, fcmToken, storedToken, effectDue, tokenRequests, loginPc,
                 pushRest>>

\* a notification arrives and raises the badge
NotificationArrives ==
  /\ badge < MaxBadge
  /\ badge' = badge + 1
  /\ UNCHANGED <<isDevice, fcmToken, storedToken, effectDue, tokenRequests, loginPc,
                 logoutPc, loggedOut, pushRest>>

(***************************************************************************)
(* WebViewContainer: load errors and HTTP errors                           *)
(***************************************************************************)
\* descriptions of load failures (nativeEvent.description), as token sequences
ErrorDescriptions ==
  { <<"net::ERR_CONNECTION_REFUSED">>,
    <<"net::ERR_INTERNET_DISCONNECTED">>,
    <<"net::ERR_UNKNOWN_URL_SCHEME ", "https://", "ansimclick", ".hyundaicard.com">>,
    <<"net::ERR_FAILED ", "https://", "pay.toss.im", "/", "directLinkedOnlinePay">> }

\* URLs of HTTP error events
ErrorUrls ==
  { <<"https://", "camter-client.vercel.app", "/home">>,
    <<"https://", "dev.api.camter.co.kr", "/oauth2/", "naver", "/callback">>,
    <<"https://", "dev.api.camter.co.kr", "/oauth2/", "naver", "/authorize">>,
    <<"https://", "ansimclick", ".hyundaicard.com", "/pay">>,
    <<"https://", "pay.toss.im", "/", "directLinkedOnlinePay">> }

StatusCodes == {400, 404, 499, 500, 503}

IsPaymentWidget(text) ==
  UrlIncludes(text, <<"ansimclick">>) \/ UrlIncludes(text, <<"directLinkedOnlinePay">>)

\* what one error handler does: the arguments of its onError calls and whether it
\* writes the error to the console
ErrorOutcome(onError, logged) == [onError |-> onError, logged |-> logged]

\* handleError without the payment filter
handleErrorUnfiltered(description) == ErrorOutcome(<<description>>, TRUE)

\* handleError of the container (onError of the WebView)
handleError(description) ==
  IF IsPaymentWidget(description) THEN ErrorOutcome(<<>>, TRUE)
  ELSE ErrorOutcome(<<description>>, TRUE)

\* handleHttpError of the container (onHttpError of the WebView)
handleHttpError(url, statusCode, description) ==
  LET oauthCallback == UrlIncludes(url, <<"/oauth2/">>) /\ UrlIncludes(url, <<"/callback">>)
  IN  IF IsPaymentWidget(url) THEN ErrorOutcome(<<>>, oauthCallback)
      ELSE IF UrlIncludes(url, <<"/oauth2/">>) /\ UrlIncludes(url, <<"/authorize">>)
           THEN ErrorOutcome(<<>>, oauthCallback)
      ELSE ErrorOutcome(<<>>, oauthCallback \/ statusCode >= 500)

\* handleError of App, the consumer's onError: the retry alert
AppHandleError(calls) == Len(calls)

errRest == <<appVars, linkVars, gateVars, outVars, msgs, webVars, resolveVars, navVars,
             permVars, pageVars, pushVars, kakaoVars, backVars>>

\* the WebView reports a load failure
LoadError(description) ==
  /\ Len(errorLog) < MaxErrors
  /\ LET h == handleError(description)
     IN  errorLog' = Append(errorLog, [kind |-> "load", text |-> description, statusCode |-> 0,
                                       onError |-> h.onError, logged |-> h.logged,
                                       alerts |-> AppHandleError(h.onError)])
  /\ UNCHANGED errRest

\* the WebView reports an HTTP error
HttpError(url, statusCode) ==
  /\ Len(errorLog) < MaxErrors
  /\ LET h == handleHttpError(url, statusCode, <<"HTTP error">>)
     IN  errorLog' = Append(errorLog, [kind |-> "http", text |-> url, statusCode |-> statusCode,
                                       onError |-> h.onError, logged |-> h.logged,
                                       alerts |-> AppHandleError(h.onError)])
  /\ UNCHANGED errRest

(***************************************************************************)
(* kakaoShareService: initKakaoSDK and shareKakaoFeed                      *)
(***************************************************************************)
kakaoRest == <<appVars, linkVars, gateVars, outVars, msgs, webVars, resolveVars, navVars,
               permVars, pageVars, pushVars, errVars, backVars>>

KakaoEvent(ev, caller, value, flag) ==
  [ev |-> ev, caller |-> caller, value |-> value, flag |-> flag]

\* initKakaoSDK returns value to caller c; flag is isKakaoInitialized at that moment.
\* prepare() ignores the value; shareKakaoFeed throws on false and calls
\* shareFeedTemplate on true
InitReturns(c, value, flag, log) ==
  LET returned == Append(log, KakaoEvent("initReturn", c, value, flag))
  IN  IF c = 0
      THEN /\ kakaoPc' = [kakaoPc EXCEPT ![c] = IF value THEN "done" ELSE "failed"]
           /\ kakaoLog' = returned
      ELSE IF value
      THEN /\ kakaoPc' = [kakaoPc EXCEPT ![c] = "sharing"]
           /\ kakaoLog' = Append(returned, KakaoEvent("shareFeedTemplate", c, TRUE, flag))
      ELSE /\ kakaoPc' = [kakaoPc EXCEPT ![c] = "failed"]
           /\ kakaoLog' = returned

\* caller c enters: prepare() calls initKakaoSDK; a shareKakao message, which can
\* arrive only once prepare() has finished and the WebView is mounted, calls
\* shareKakaoFeed.  Both run up to their first await.
KakaoEnter(c) ==
  /\ kakaoPc[c] = "idle"
  /\ c # 0 => kakaoPc[0] \in {"done", "failed"}
  /\ IF isKakaoInitialized
     THEN IF c = 0
          THEN InitReturns(c, TRUE, isKakaoInitialized, kakaoLog)
          ELSE /\ kakaoPc' = [kakaoPc EXCEPT ![c] = "sharing"]
               /\ kakaoLog' = Append(kakaoLog, KakaoEvent("shareFeedTemplate", c, TRUE,
                                                          isKakaoInitialized))
     ELSE /\ kakaoPc' = [kakaoPc EXCEPT ![c] = "initializing"]
          /\ kakaoLog' = Append(kakaoLog, KakaoEvent("initializeKakaoSDK", c, TRUE,
                                                     isKakaoInitialized))
  /\ UNCHANGED <<platformOS, isKakaoInitialized, kakaoRest>>

\* initializeKakaoSDK settles for caller c
KakaoInitSettles(c, ok) ==
  /\ kakaoPc[c] = "initializing"
  /\ IF ok
     THEN /\ isKakaoInitialized' = TRUE
          /\ IF platformOS = "android"
             THEN /\ kakaoPc' = [kakaoPc EXCEPT ![c] = "keyhash"]
                  /\ kakaoLog' = Append(kakaoLog, KakaoEvent("initialized", c, TRUE, TRUE))
             ELSE InitReturns(c, TRUE, TRUE,
                              Append(kakaoLog, KakaoEvent("initialized", c, TRUE, TRUE)))
     ELSE /\ UNCHANGED isKakaoInitialized
          /\ InitReturns(c, FALSE, isKakaoInitialized, kakaoLog)
  /\ UNCHANGED <<platformOS, kakaoRest>>

\* getKeyHashAndroid settles for caller c; its rejection is caught like any other
KeyHashSettles(c, ok) ==
  /\ kakaoPc[c] = "keyhash"
  /\ InitReturns(c, ok, isKakaoInitialized, kakaoLog)
  /\ UNCHANGED <<platformOS, isKakaoInitialized, kakaoRest>>

\* shareFeedTemplate settles for caller c
ShareSettles(c, ok) ==
  /\ kakaoPc[c] = "sharing"
  /\ kakaoPc' = [kakaoPc EXCEPT ![c] = IF ok THEN "done" ELSE "failed"]
  /\ UNCHANGED <<platformOS, isKakaoInitialized, kakaoLog, kakaoRest>>

(***************************************************************************)
(* App: the Android hardware back button                                   *)
(***************************************************************************)
\* the pages the WebView reports in the back-button specification: the start page, a
\* page one level deep, a page two levels deep, a nested home page, a payment page
BackUrls ==
  { WEBVIEW_URL,
    <<"https://", "camter-client.vercel.app", "/", "mypage">>,
    <<"https://", "camter-client.vercel.app", "/", "product", "/", "5">>,
    <<"https://", "camter-client.vercel.app", "/", "shop", "/", "home">>,
    <<"https://", "payment-gateway.tosspayments.com", "/", "v1", "/", "pay">> }

PaymentHosts == {"tosspayments.com", "pay.toss.im", "payment-gateway.tosspayments.com",
                 "payment-gateway-sandbox.tosspayments.com"}

\* isPaymentUrl: the URL contains one of the payment hosts
isPaymentUrl(url) == \E k \in 1..Len(url) : url[k] \in PaymentHosts

\* currentUrl.split('/').filter(Boolean).length: "https:" and every piece between
\* slashes that is not empty
UrlPieces(url) == Cardinality({k \in 1..Len(url) : url[k] # "/"})

\* isHomePage of the back handler
isHomePage(url) ==
  \/ url = WEBVIEW_URL
  \/ url = WEBVIEW_URL \o <<"/">>
  \/ (Len(url) >= 2 /\ url[Len(url) - 1] = "/" /\ url[Len(url)] = "home")
  \/ ~(\E k \in 1..Len(url) : url[k] \in {"https://", "/"})
  \/ UrlPieces(url) <= 3

\* what one back press does: its return value, its effect and the new lastBackPress
BackResult(consumed, effect, last) == [consumed |-> consumed, effect |-> effect, last |-> last]

\* a handler that exits on any press after the first, whatever time has passed
hardwareBackPressNoWindow(url, goBackable, lastApp, hasRef, last, t) ==
  IF isPaymentUrl(url)
  THEN BackResult(TRUE, IF goBackable /\ hasRef THEN "goBack" ELSE "none", last)
  ELSE IF goBackable /\ ~isHomePage(url)
       THEN BackResult(TRUE, IF hasRef THEN "goBack" ELSE "none", last)
       ELSE IF last # 0 THEN BackResult(TRUE, "exit", last)
                        ELSE BackResult(TRUE, "snackbar", t)

\* the hardwareBackPress handler
hardwareBackPress(url, goBackable, lastApp, hasRef, last, t) ==
  IF isPaymentUrl(url)
  THEN IF goBackable /\ hasRef
       THEN BackResult(TRUE, "goBack", last)
       ELSE IF lastApp # <<>> /\ hasRef
            THEN BackResult(TRUE, "navigateLast", last)
            ELSE BackResult(TRUE, "none", last)
  ELSE IF goBackable /\ ~isHomePage(url)
       THEN BackResult(TRUE, IF hasRef THEN "goBack" ELSE "none", last)
       ELSE IF last # 0 /\ t - last < EXIT_TIMEOUT
            THEN BackResult(TRUE, "exit", last)
            ELSE BackResult(TRUE, "snackbar", t)

backRest == <<appVars, linkVars, gateVars, outVars, msgs, webVars, resolveVars, navVars,
              permVars, pageVars, pushVars, errVars, kakaoVars>>

\* the user presses the back button (the handler is registered on Android only)
BackPress ==
  /\ platformOS = "android"
  /\ ~exited
  /\ Len(backLog) < MaxBacks
  /\ LET r == hardwareBackPress(currentUrl, canGoBack, lastAppUrl, mounted, lastBackPress, now)
     IN /\ backLog' = Append(backLog, [time |-> now, url |-> currentUrl, canGoBack |-> canGoBack,
                                       consumed |-> r.consumed, effect |-> r.effect])
        /\ lastBackPress' = r.last
        /\ exited' = (r.effect = "exit")
        /\ exitSnackbarVisible' = IF r.effect = "snackbar" THEN TRUE ELSE exitSnackbarVisible
        /\ hideTimers' = IF r.effect = "snackbar" THEN hideTimers \cup {now + EXIT_TIMEOUT}
                                                  ELSE hideTimers
  /\ UNCHANGED <<currentUrl, canGoBack, lastAppUrl, now, backRest>>

\* handleNavigationStateChange: the mounted WebView reports a page
NavigationStateChange(url, goBackable) ==
  /\ mounted
  /\ ~exited
  /\ <<url, goBackable>> # <<currentUrl, canGoBack>>
  /\ currentUrl' = url
  /\ lastAppUrl' = IF SubSeq(url, 1, 2) = SubSeq(WEBVIEW_URL, 1, 2) THEN url ELSE lastAppUrl
  /\ canGoBack' = goBackable
  /\ UNCHANGED <<now, lastBackPress, exitSnackbarVisible, hideTimers, backLog, exited, backRest>>

\* the timeout that hides the snackbar fires
HideSnackbar ==
  /\ \E due \in hideTimers :
       /\ due <= now
       /\ hideTimers' = hideTimers \ {due}
  /\ exitSnackbarVisible' = FALSE
  /\ UNCHANGED <<currentUrl, canGoBack, lastAppUrl, now, lastBackPress, backLog, exited, backRest>>

\* time passes
BackTick ==
  /\ now < MaxNow
  /\ now' = now + BackStepMs
  /\ UNCHANGED <<currentUrl, canGoBack, lastAppUrl, lastBackPress, exitSnackbarVisible,
                 hideTimers, backLog, exited, backRest>>

(***************************************************************************)
(* Specifications                                                          *)
(***************************************************************************)
\* start-up without a deep link
Boot ==
  \/ PrepareDone
  \/ PushInitDone
  \/ PushInitFailed
  \/ InitialUrl(NoUrl)
  \/ InitialUrlRejected
  \/ Commit

Gate ==
  \/ \E next \in AppStates : AppStateChange(next)
  \/ Tick
  \/ TimerFire
  \/ LoadStart
  \/ LoadEnd

\* the message of the gate specification: showImagePicker, which is answered at once
GateActions == {"showImagePicker"}

\* Spec: the container with its gate, queue and timers, receiving messages that are
\* answered (with or without requestId)
Next ==
  \/ Boot
  \/ Gate
  \/ \E i \in MsgIds, action \in GateActions, hasId \in BOOLEAN :
       Receive(i, action, "-", IF hasId THEN i ELSE 0)

Spec == Init /\ [][Next]_vars

\* FairSpec: time passes and due timers fire (the JavaScript event loop runs timers)
FairSpec == Spec /\ WF_vars(Tick) /\ WF_vars(TimerFire)

\* DispatchSpec: every action and payload shape of the bridge, in a foreground app
\* whose page loads and reloads
NextDispatch ==
  \/ Boot
  \/ LoadStart
  \/ LoadEnd
  \/ \E i \in 1..MaxDispatched, action \in Actions, hasId \in BOOLEAN :
       \E arg \in ArgsOf(action) :
         Receive(i, action, arg, IF hasId THEN i ELSE 0)
  \/ \E i \in MsgIds, outcome \in {"denied", "cancelled", "asset", "throws", "granted",
                                   "undetermined", "token", "null", "supported",
                                   "unsupported", "ok"}, errMsg \in ErrMsgs :
       CompleteFirst(i, outcome, errMsg)
  \/ \E i \in MsgIds, outcome \in {"ok", "throws"} : CompleteSecond(i, outcome)

DispatchSpec == Init /\ [][NextDispatch]_vars

\* NavSpec: navigation attempts in a container of either generation
InitNavSpec ==
  /\ InitAppOnly
  /\ \E v \in {"current", "legacy"} : InitNav(v)
  /\ InitPerm
  /\ InitPage
  /\ InitPush(TRUE, Null, 0)
  /\ InitErr
  /\ InitKakao("android")
  /\ InitBack
  /\ rUrl = NoUrl
  /\ rParams = EmptyParams
  /\ rPath = NullPath
  /\ rpc = "off"

NextNav ==
  \/ \E url \in NavUrls, isAppLink \in BOOLEAN : NavAttempt(url, isAppLink)
  \/ SourceLoadAsked
  \/ SourceLoadUnasked

NavSpec == InitNavSpec /\ [][NextNav]_vars

\* PermSpec: permission checks and pickers against a platform whose permissions change
NextPerm ==
  \/ \E type \in PermTypes, throws \in BOOLEAN : CheckPermission(type, throws)
  \/ \E source \in {"camera", "gallery"}, outcome \in PickOutcomes : PickImage(source, outcome)
  \/ \E type \in PermTypes, status \in PlatformStatuses : SettingsChange(type, status)

PermSpec == Init /\ [][NextPerm]_vars

\* OrderSpec: requests whose native operation (getFcmToken) finishes later, in any
\* order, behind the gate
NextOrder ==
  \/ Boot
  \/ Gate
  \/ \E i \in MsgIds : Receive(i, "getFcmToken", "-", i)
  \/ \E i \in MsgIds, outcome \in {"token", "throws"} :
       CompleteFirst(i, outcome, IF outcome = "throws" THEN "native failure" ELSE "")

OrderSpec == Init /\ [][NextOrder]_vars

\* VariantSpec: the messages the two container generations handle differently
\* (pickImage, showImagePicker, notifyLoginSuccess), in a container of either generation
VariantActions == {"pickImage", "showImagePicker", "notifyLoginSuccess"}

NextVariant ==
  \/ Boot
  \/ LoadStart
  \/ LoadEnd
  \/ \E i \in 1..MaxDispatched, action \in VariantActions, hasId \in BOOLEAN :
       \E arg \in ArgsOf(action) :
         Receive(i, action, arg, IF hasId THEN i ELSE 0)
  \/ \E i \in MsgIds, outcome \in PickOutcomes \cup TokenOutcomes, errMsg \in ErrMsgs :
       CompleteFirst(i, outcome, errMsg)
  \/ \E i \in MsgIds, outcome \in {"ok", "throws"} : CompleteSecond(i, outcome)

VariantSpec == InitNavSpec /\ [][NextVariant]_vars

\* ParitySpec: the requests both container generations answer (pickers with a source,
\* checkPermission, getFcmToken), in a container of either generation
ParityActions == {"pickImage", "pickImageFromCamera", "pickImageFromGallery",
                  "checkPermission", "getFcmToken"}

NextParity ==
  \/ Boot
  \/ LoadStart
  \/ LoadEnd
  \/ \E i \in 1..MaxDispatched, action \in ParityActions, hasId \in BOOLEAN :
       \E arg \in ArgsOf(action) \ {"nosource"} :
         Receive(i, action, arg, IF hasId THEN i ELSE 0)
  \/ \E i \in MsgIds, outcome \in PickOutcomes \cup PermissionStatuses \cup TokenOutcomes,
          errMsg \in ErrMsgs :
       CompleteFirst(i, outcome, errMsg)

ParitySpec == InitNavSpec /\ [][NextParity]_vars

\* ErrorSpec: load failures and HTTP errors reported by the WebView
NextError ==
  \/ \E description \in ErrorDescriptions : LoadError(description)
  \/ \E url \in ErrorUrls, statusCode \in StatusCodes : HttpError(url, statusCode)

ErrorSpec == Init /\ [][NextError]_vars

\* KakaoSpec: prepare() and shareKakao messages calling into kakaoShareService, on
\* either platform
InitKakaoSpec ==
  /\ InitAppOnly
  /\ InitNav("current")
  /\ InitPerm
  /\ InitPage
  /\ InitPush(TRUE, Null, 0)
  /\ InitErr
  /\ \E os \in {"android", "ios"} : InitKakao(os)
  /\ InitBack
  /\ rUrl = NoUrl
  /\ rParams = EmptyParams
  /\ rPath = NullPath
  /\ rpc = "off"

NextKakao ==
  \/ \E c \in KakaoCallers : KakaoEnter(c)
  \/ \E c \in KakaoCallers, ok \in BOOLEAN : KakaoInitSettles(c, ok)
  \/ \E c \in KakaoCallers, ok \in BOOLEAN : KeyHashSettles(c, ok)
  \/ \E c \in KakaoCallers, ok \in BOOLEAN : ShareSettles(c, ok)

KakaoSpec == InitKakaoSpec /\ [][NextKakao]_vars

\* BackSpec: start-up, the pages the WebView reports and the back button, over time
NextBack ==
  \/ Boot
  \/ BackPress
  \/ \E url \in BackUrls, goBackable \in BOOLEAN : NavigationStateChange(url, goBackable)
  \/ HideSnackbar
  \/ BackTick

BackSpec == Init /\ [][NextBack]_vars

\* PushSpec: the push hook on a device or a simulator, with or without a stored token,
\* its consumer calling handleLoginSuccess and handleLogout, and the page posting
\* notifyLogout
InitPushSpec ==
  /\ InitAppOnly
  /\ InitNav("current")
  /\ InitPerm
  /\ InitPage
  /\ \E device \in BOOLEAN, stored \in {Null, Token}, count \in 0..MaxBadge :
       InitPush(device, stored, count)
  /\ InitErr
  /\ InitKakao("android")
  /\ InitBack
  /\ rUrl = NoUrl
  /\ rParams = EmptyParams
  /\ rPath = NullPath
  /\ rpc = "off"

NextPush ==
  \/ Boot
  \/ LoadStart
  \/ \E hasId \in BOOLEAN : Receive(1, "notifyLogout", "-", IF hasId THEN 1 ELSE 0)
  \/ TokenEffect
  \/ \E outcome \in TokenOutcomes : TokenRequestSettles(outcome)
  \/ HandleLoginSuccess
  \/ \E outcome \in TokenOutcomes : LoginRequestSettles(outcome)
  \/ LoginSyncSettles
  \/ HandleLogout
  \/ \E throws \in BOOLEAN : LogoutTokenCleared(throws)
  \/ \E throws \in BOOLEAN : LogoutBadgeCleared(throws)
  \/ NotificationArrives

PushSpec == InitPushSpec /\ [][NextPush]_vars

\* WebSpec: the page makes requests and its response handlers are called with any
\* requestId, in any order, any number of times
NextWeb ==
  \/ PageRequest
  \/ \E rid \in ResponseIds, success \in BOOLEAN : CallFlutterResponse(rid, success)
  \/ CallResponseByType

WebSpec == Init /\ [][NextWeb]_vars

\* LinkSpec: start-up and deep-link activations
NextLink ==
  \/ PrepareDone
  \/ PushInitDone
  \/ PushInitFailed
  \/ \E url \in DeepLinkUrls \cup {NoUrl} : InitialUrl(url)
  \/ InitialUrlRejected
  \/ \E url \in DeepLinkUrls : UrlEvent(url)
  \/ Commit
  \/ \E next \in AppStates : AppStateChange(next)
  \/ LoadStart
  \/ LoadEnd

LinkSpec == Init /\ [][NextLink]_vars

\* StartSpec: LinkSpec in which every awaited start-up call settles and React commits
\* the renders that state updates ask for
StartSpec ==
  /\ LinkSpec
  /\ WF_vars(PrepareDone)
  /\ WF_vars(PushInitDone \/ PushInitFailed)
  /\ WF_vars((\E url \in DeepLinkUrls \cup {NoUrl} : InitialUrl(url)) \/ InitialUrlRejected)
  /\ WF_vars(Commit)

(***************************************************************************)
(* Claims about the resolver (checked under ResolveSpec)                   *)
(***************************************************************************)
\* the query string parseUrlParams reads, as name/value pairs
RQuery == IF Includes(rUrl, "?") THEN SearchPairs(SplitSecond(rUrl, "?")) ELSE <<>>

\* parameter k occurs in the query string, whatever its value
Present(k) == SearchHas(RQuery, k)

\* parameter k occurs in the query string and its first occurrence has a non-empty value
PresentNonEmpty(k) == SearchHas(RQuery, k) /\ SearchGet(RQuery, k) # ""

PathPrefix ==
  [k \in Range(IdKeys) |->
     CASE k = "productId" -> "/product/"
       [] k = "eventId" -> "/event/"
       [] k = "programId" -> "/program/"
       [] k = "postId" -> "/community/post/"
       [] k = "reservationId" -> "/reservation-detail/"]

\* k is the first identifier, in the fixed order, that P accepts
FirstIn(P(_), i) == P(IdKeys[i]) /\ \A j \in 1..(i-1) : ~P(IdKeys[j])

\* C9 (as stated): the first identifier present in the URL, in the order product >
\* event > program > post > reservation, alone determines the resolved path; only
\* when none is present does an OAuth code decide, and only then the raw path.
C9_PrecedenceOfPresent ==
  rpc = "out" =>
    /\ \A i \in 1..Len(IdKeys) :
         FirstIn(Present, i) => rPath = PathPrefix[IdKeys[i]] \o SearchGet(RQuery, IdKeys[i])
    /\ ((\A i \in 1..Len(IdKeys) : ~Present(IdKeys[i])) /\ Present("code"))
         => \E b \in {BasePath(rUrl), "/oauth/callback"} :
              \E st \in {"", "&state=" \o rParams["state"]} :
                rPath = b \o "?code=" \o SearchGet(RQuery, "code") \o st

\* C9 (amended): the same precedence among the identifiers that are present with a
\* non-empty value; an identifier given with an empty value ("productId=") counts
\* as absent.  productId=5 with eventId=9 resolves to /product/5.
C9_Precedence ==
  rpc = "out" =>
    /\ \A i \in 1..Len(IdKeys) :
         FirstIn(PresentNonEmpty, i)
           => rPath = PathPrefix[IdKeys[i]] \o SearchGet(RQuery, IdKeys[i])
    /\ ((\A i \in 1..Len(IdKeys) : ~PresentNonEmpty(IdKeys[i])) /\ PresentNonEmpty("code"))
         => \E b \in {BasePath(rUrl), "/oauth/callback"} :
              \E st \in {"", "&state=" \o rParams["state"]} :
                rPath = b \o "?code=" \o SearchGet(RQuery, "code") \o st
    /\ ((\A i \in 1..Len(IdKeys) : ~PresentNonEmpty(IdKeys[i])) /\ ~PresentNonEmpty("code"))
         => rPath \in {BasePath(rUrl), "/"}
    /\ (PresentNonEmpty("productId") /\ SearchGet(RQuery, "productId") = "5"
          /\ PresentNonEmpty("eventId") /\ SearchGet(RQuery, "eventId") = "9")
         => rPath = "/product/5"

\* a resolved URL carrying productId=5 after eventId=9: product still wins
C9_Witness ==
  /\ rpc = "out"
  /\ rUrl = <<"camter://", "shop", "/", "list", "?", "eventId", "=", "9", "&", "productId", "=", "5">>
  /\ rPath = "/product/5"

\* C10: a supported deep link with an OAuth code and no semantic identifier resolves
\* to /oauth/callback?code=<code>, followed by &state=<state> when state is present;
\* camterapp://auth?code=ABC&state=XYZ resolves to /oauth/callback?code=ABC&state=XYZ.
C10_OAuthCallbackPath ==
  (/\ rpc = "out"
   /\ \A i \in 1..Len(IdKeys) : ~Present(IdKeys[i])
   /\ PresentNonEmpty("code"))
    => rPath = "/oauth/callback?code=" \o SearchGet(RQuery, "code")
                 \o (IF PresentNonEmpty("state")
                     THEN "&state=" \o SearchGet(RQuery, "state") ELSE "")

(***************************************************************************)
(* Claims about the gate and the queue (checked under Spec)                *)
(***************************************************************************)
QueuedEntries == {i \in 1..Len(injected) : injected[i].queued}

\* C3: responses that sendNativeResponse queued while the container was not
\* interactive reach the WebView, once it is interactive, in the order in which they
\* were generated: whatever left the queue left it oldest first, and what is still
\* queued is younger than everything that left and is itself in generation order.
C3_FifoDrain ==
  /\ \A i \in QueuedEntries :
       /\ injected[i].s.kind = "response"
       /\ ~injected[i].s.genOpen
       /\ injected[i].open
  /\ \A i, j \in QueuedEntries : i < j => injected[i].s.seq < injected[j].s.seq
  /\ \A i, j \in 1..Len(messageQueue) : i < j => messageQueue[i].seq < messageQueue[j].seq
  /\ \A i \in QueuedEntries, j \in 1..Len(messageQueue) :
       injected[i].s.seq < messageQueue[j].seq

\* two responses were queued and then injected by one drain, the older one first
C3_Witness ==
  \E i \in QueuedEntries :
    /\ (i + 1) \in QueuedEntries
    /\ injected[i].s.seq < injected[i + 1].s.seq
    /\ injected[i].s.requestId # injected[i + 1].s.requestId
    /\ messageQueue = <<>>

\* C4 (as stated): every script generated while the interactive flag was false went
\* through the message queue and was injected with the flag set.
C4_AllGatedThroughQueue ==
  \A i \in 1..Len(injected) :
    ~injected[i].s.genOpen => (injected[i].queued /\ injected[i].open)

\* C5 (as stated): the interactive flag is false whenever the app is not in the
\* foreground or onLoadEnd has not been reported since the last onLoadStart.
C5_InteractiveImpliesLoadEnd ==
  isWebViewInteractive => (appState = "active" /\ load = "ended")

\* C5 (amended): the interactive flag is false whenever the app is not in the
\* foreground or the WebView has not been marked loaded since the last onLoadStart,
\* where onLoadEnd and an inbound bridge message both mark it loaded.
C5_InteractiveImpliesLoaded ==
  isWebViewInteractive =>
    /\ appState = "active"
    /\ isWebViewLoaded
    /\ (load = "ended" \/ msgSeen)

\* the flag is set during a load that has not ended: a message marked the WebView
\* loaded and a stabilization timer then opened the gate
C5_Witness ==
  /\ isWebViewInteractive
  /\ load = "loading"
  /\ msgSeen
  /\ appState = "active"

\* C6 (as stated): the interactive flag is set, and a response is injected, only
\* when onLoadEnd has been reported and the settle delay has elapsed since the last
\* return to the foreground.
C6_SettledBeforeInteractive ==
  /\ isWebViewInteractive => (load = "ended" /\ sinceForeground >= SettleDelay)
  /\ \A i \in 1..Len(injected) :
       injected[i].s.kind = "response" => (injected[i].settled /\ injected[i].ended)

(***************************************************************************)
(* Claims about the queue's liveness (checked under FairSpec)              *)
(***************************************************************************)
\* a step changes the queue only by appending one script or by handing all of it,
\* in order, to injectJavaScript
QueueStep ==
  \/ messageQueue' = messageQueue
  \/ /\ Len(messageQueue') = Len(messageQueue) + 1
     /\ SubSeq(messageQueue', 1, Len(messageQueue)) = messageQueue
  \/ /\ messageQueue' = <<>>
     /\ Len(injected') = Len(injected) + Len(messageQueue)
     /\ SubSeq(injected', 1, Len(injected)) = injected
     /\ \A k \in 1..Len(messageQueue) :
          /\ injected'[Len(injected) + k].s = messageQueue[k]
          /\ injected'[Len(injected) + k].queued

\* no generated script is injected twice, or injected and still queued
InjectedOnce ==
  /\ \A i, j \in 1..Len(injected) : i # j => injected[i].s.seq # injected[j].s.seq
  /\ \A i \in 1..Len(injected), j \in 1..Len(messageQueue) :
       injected[i].s.seq # messageQueue[j].seq

\* C7: no queue entry is dropped or injected twice: an entry leaves the queue only by
\* being injected, once; and if from some point on the app stays in the foreground
\* with the load reported complete (onLoadEnd), every queued script is eventually
\* injected.  Reloads and background/foreground cycles before that point are free.
C7_NoEntryDropped ==
  /\ [][QueueStep]_vars
  /\ []InjectedOnce
  /\ (<>[](appState = "active" /\ load = "ended"))
       => ((messageQueue # <<>>) ~> (messageQueue = <<>>))

\* the queue was drained twice, once by a stabilization timer during a load that a
\* message had marked loaded, and once after onLoadEnd
C7_Witness ==
  /\ messageQueue = <<>>
  /\ \E i, j \in QueuedEntries : i < j /\ ~injected[i].ended /\ injected[j].ended

(***************************************************************************)
(* Claims about the dispatcher (checked under DispatchSpec)                *)
(***************************************************************************)
\* the response scripts generated for requestId rid, injected or still queued
InjectedResponses(rid) ==
  {k \in 1..Len(injected) :
     injected[k].s.kind = "response" /\ injected[k].s.requestId = rid}

QueuedResponses(rid) ==
  {k \in 1..Len(messageQueue) :
     messageQueue[k].kind = "response" /\ messageQueue[k].requestId = rid}

ResponseCount(rid) == Cardinality(InjectedResponses(rid)) + Cardinality(QueuedResponses(rid))

ResponsesOf(rid) ==
  {injected[k].s : k \in InjectedResponses(rid)} \cup {messageQueue[k] : k \in QueuedResponses(rid)}

\* promises of requestId rid that handleFlutterResponse settled
Settled(rid) == {k \in 1..Len(settleLog) : settleLog[k].requestId = rid /\ settleLog[k].by = rid}

Handled(i) == msgs[i].phase = "done" /\ msgs[i].requestId # 0

PickActions == {"pickImage", "pickImageFromCamera", "pickImageFromGallery"}

\* C1 (as stated): once handleMessage has finished with a message that carried a
\* requestId, exactly one response with that requestId has been generated (injected
\* or queued), and its pending entry has been removed no more than once.
C1_ExactlyOneResponse ==
  \A i \in MsgIds :
    Handled(i) =>
      /\ ResponseCount(msgs[i].requestId) = 1
      /\ Cardinality(Settled(msgs[i].requestId)) <= 1

\* C2 (as stated): when the native operation of a message with a requestId threw,
\* one response with success=false and a non-empty error was sent for it, and the
\* exception did not leave the dispatcher.
C2_ThrowAnsweredWithFailure ==
  \A i \in MsgIds :
    (Handled(i) /\ msgs[i].threw) =>
      /\ ~msgs[i].escaped
      /\ \E r \in ResponsesOf(msgs[i].requestId) :
           ~r.success /\ r.error \notin {"", Undefined}

\* C2 (amended): a throw behind pickImage (with a source), pickImageFromCamera,
\* pickImageFromGallery or getFcmToken, or a shareKakao whose SDK call and
\* share-sheet fallback both throw, is answered by exactly one response with
\* success=false and a non-empty error.  A platform error behind checkPermission is
\* answered success=true with a denied status; a shareKakao whose fallback succeeds
\* is answered success=true with fallback set; a throw behind notifyLoginSuccess,
\* downloadFile, openExternalLink or shareContent is logged and gets no response.
\* The exception never leaves the dispatcher.
C2_ThrowHandledPerAction ==
  \A i \in MsgIds :
    (Handled(i) /\ msgs[i].threw) =>
      LET a == msgs[i].action
          rs == ResponsesOf(msgs[i].requestId)
      IN  /\ ~msgs[i].escaped
          /\ (a \in PickActions \cup {"getFcmToken"} \/ (a = "shareKakao" /\ msgs[i].threw2))
               => /\ ResponseCount(msgs[i].requestId) = 1
                  /\ \A r \in rs : ~r.success /\ r.error \notin {"", Undefined} /\ r.data = Null
          /\ a = "checkPermission"
               => /\ ResponseCount(msgs[i].requestId) = 1
                  /\ \A r \in rs : r.success /\ r.data.denied /\ ~r.data.granted
          /\ (a = "shareKakao" /\ ~msgs[i].threw2)
               => /\ ResponseCount(msgs[i].requestId) = 1
                  /\ \A r \in rs : r.success /\ r.data = ShareResult(TRUE)
          /\ a \in {"notifyLoginSuccess", "downloadFile", "openExternalLink", "shareContent"}
               => ResponseCount(msgs[i].requestId) = 0

\* getFcmToken threw an error with an empty message and the request was answered
\* with a failure whose error is the default text
C2_Witness ==
  \E i \in MsgIds :
    /\ Handled(i)
    /\ msgs[i].threw
    /\ msgs[i].action = "getFcmToken"
    /\ msgs[i].err = ""
    /\ \E r \in ResponsesOf(msgs[i].requestId) : ~r.success /\ r.error = "Unknown error"

(***************************************************************************)
(* Claims about deep-link navigation (checked under LinkSpec)              *)
(***************************************************************************)
\* C8 (as stated): once a supported URL has been submitted twice (initial URL and/or
\* 'url' events) and its renders are done, navigation to it has been triggered in
\* the WebView exactly once.
C8_NavigatedExactlyOnce ==
  \A u \in DeepLinkUrls :
    (IsSupported(u) /\ submitted[u] >= 2 /\ ~dirty) => navTriggered[u] = 1

\* the schemes the allow-list names
AllowListed ==
  { "camter://", "camterapp://", "camterguest://", "exp://",
    "kakaob0892b60f070bd0742c5cb6f792dac5d://", "kakao1a11067057bb6fcf187e925d406f9386://" }

\* the activations whose scheme is outside the allow-list
Outsiders == { u \in DeepLinkUrls : Head(u) \notin AllowListed }

\* C11: an activation whose URL has no allow-listed scheme never becomes the
\* deep-link result and never triggers a navigation, whatever its query parameters:
\* the step that submits it leaves the deep-link result and the injected scripts as
\* they were, no such URL is ever the result, and none is navigated to.
C11_UnsupportedIgnored ==
  /\ [](\A u \in Outsiders : deepLink.url # u /\ navTriggered[u] = 0)
  /\ [][\A u \in Outsiders :
          submitted'[u] # submitted[u]
            => (deepLink' = deepLink /\ injected' = injected /\ navTriggered' = navTriggered
                /\ messageQueue' = messageQueue)]_vars

\* an unsupported URL carrying productId=5 was submitted to a rendered container and
\* nothing was navigated
C11_Witness ==
  /\ mounted
  /\ ~dirty
  /\ submitted[<<"foo://", "bar", "?", "productId", "=", "5">>] >= 1
  /\ deepLink = NoDeepLink
  /\ injected = <<>>

\* C12 (as stated): processing a URL with an unsupported scheme adds no entry to the
\* seen-set.
C12_SeenSetOnlySupported ==
  \A u \in processedUrls : IsSupported(u)

\* C13 (as stated): a navigation script is injected only when the load of the
\* WebView had been reported complete, and a supported deep link whose renders are
\* done has been navigated to (not lost).
C13_NavigationAfterLoad ==
  /\ \A i \in 1..Len(injected) : injected[i].s.kind = "nav" => injected[i].ended
  /\ \A u \in DeepLinkUrls :
       (IsSupported(u) /\ submitted[u] >= 1 /\ ~dirty /\ deepLink.url # u)
         => navTriggered[u] >= 1

(***************************************************************************)
(* Claims about navigation interception (checked under NavSpec)            *)
(***************************************************************************)
NavCalls == 1..Len(navLog)

\* C14: every navigation attempt to a tel:, mailto: or sms: URL is refused (the
\* handler returns false, the WebView does not load it) and the URL is handed to
\* Linking.openURL exactly once, in the current and in the legacy container.
C14_ContactUrlsOpenedExternally ==
  \A i \in NavCalls :
    Head(navLog[i].url) \in {"tel:", "mailto:", "sms:"} =>
      /\ ~navLog[i].allow
      /\ navLog[i].opened = <<navLog[i].url>>
      /\ ~navLog[i].reissue
      /\ ~navLog[i].launched

\* the legacy container was asked about a tel: URL and about a mailto: URL that
\* mentions play.google.com, and handed each to the external opener once
C14_Witness ==
  /\ variant = "legacy"
  /\ \E i, j \in NavCalls :
       /\ navLog[i].url = <<"tel:", "0212345678">>
       /\ navLog[i].opened = <<navLog[i].url>>
       /\ ~navLog[i].allow
       /\ navLog[j].url = <<"mailto:", "help@camter.co.kr", "?body=", "play.google.com">>
       /\ navLog[j].opened = <<navLog[j].url>>

\* the attempts that target the backend OAuth authorize endpoint
TargetsAuthorize(url) ==
  /\ Len(url) >= 2
  /\ url[1] = "https://"
  /\ url[2] = "dev.api.camter.co.kr"
  /\ \E i, j \in 3..Len(url) : url[i] = "/oauth2/" /\ url[j] = "/authorize"

Reissues == {i \in NavCalls : navLog[i].reissue}

SourceLoads == {i \in NavCalls : navLog[i].viaSource}

\* C15: in the current container, an attempt at the backend OAuth authorize
\* endpoint made while the source carries no Origin header is cancelled and the
\* source is set to that URL with the header; the load of the new source is allowed
\* and never cancelled again, so there is one reissue for the cancelled load and no
\* further one, whatever is attempted afterwards.
C15_ReissuedOnce ==
  variant = "current" =>
    /\ \A i \in NavCalls :
         (TargetsAuthorize(navLog[i].url) /\ \A k \in 1..(i - 1) : ~navLog[k].reissue)
           => (~navLog[i].allow /\ navLog[i].reissue /\ ~navLog[i].viaSource)
    /\ \A i \in Reissues :
         /\ TargetsAuthorize(navLog[i].url)
         /\ webviewSource = [uri |-> navLog[i].url, origin |-> TRUE]
         /\ \A k \in SourceLoads : k > i /\ navLog[k].url = navLog[i].url
    /\ \A k \in SourceLoads : navLog[k].allow /\ ~navLog[k].reissue
    /\ Cardinality(Reissues) <= 1
    /\ Cardinality(SourceLoads) + (IF pendingLoad # NoUrl THEN 1 ELSE 0)
         = Cardinality(Reissues)

\* an authorize attempt was cancelled, its reissued load asked the handler and was
\* allowed, and a later authorize attempt passed without a reissue
C15_Witness ==
  /\ variant = "current"
  /\ Len(navLog) = 3
  /\ navLog[1].reissue
  /\ navLog[2].viaSource /\ navLog[2].asked /\ navLog[2].allow
  /\ navLog[2].url = navLog[1].url
  /\ TargetsAuthorize(navLog[3].url) /\ navLog[3].allow /\ ~navLog[3].reissue

(***************************************************************************)
(* Claims about permissions (checked under PermSpec)                       *)
(***************************************************************************)
PermOps == 1..Len(permLog)

GrantedRecord == [granted |-> TRUE, denied |-> FALSE, permanentlyDenied |-> FALSE,
                  limited |-> FALSE]

FourFields(r) == [granted |-> r.granted, denied |-> r.denied,
                  permanentlyDenied |-> r.permanentlyDenied, limited |-> r.limited]

\* C16: checkPermission for camera or photos, when the platform reports granted,
\* returns exactly granted=true, denied=false, permanentlyDenied=false, limited=false,
\* and does nothing but read the status: its only platform call is the getter of that
\* type (no permission request, no picker) and the platform's permissions are unchanged
C16_GrantedCheckIsPure ==
  /\ [](\A i \in PermOps :
         (permLog[i].op = "checkPermission" /\ permLog[i].status = "granted") =>
           /\ FourFields(permLog[i].result) = GrantedRecord
           /\ Len(permLog[i].calls) = 1
           /\ permLog[i].calls[1] \in {"getCameraPermissionsAsync",
                                        "getMediaLibraryPermissionsAsync"}
           /\ (permLog[i].calls[1] = "getCameraPermissionsAsync")
                = (permLog[i].type = "camera"))
  /\ [][(Len(permLog') > Len(permLog) /\ permLog'[Len(permLog')].op = "checkPermission")
         => permStatus' = permStatus]_vars

C16_Witness ==
  /\ Len(permLog) = 3
  /\ permLog[1].op = "pickImage" /\ permLog[1].type = "camera" /\ permLog[1].status = "granted"
  /\ permLog[2].op = "checkPermission" /\ permLog[2].type = "camera"
  /\ permLog[2].status = "granted"
  /\ permLog[3].op = "checkPermission" /\ permLog[3].type = "photos"
  /\ permLog[3].status = "granted"
  /\ permStatus = [t \in PermTypes |-> "granted"]

(***************************************************************************)
(* Claims about the page's pending requests                                *)
(***************************************************************************)
\* C17: with several requests in flight, every pending request is settled only by
\* the response that carries its own requestId, never by another message's result
\* (the type-based result of a message without requestId included)
C17_SettledByOwnResponse ==
  \A k \in 1..Len(settleLog) : settleLog[k].by = settleLog[k].requestId

SettlementsOf(r) == { k \in 1..Len(settleLog) : settleLog[k].requestId = r }

IsPending(r) == \E i \in 1..Len(pendingRequests) : pendingRequests[i] = r

\* C18: under any sequence of handleFlutterResponse and type-based handler calls,
\* duplicates included, every pending-request entry is settled at most once and
\* removed at most once: a settled entry is gone from the table, a removed entry never
\* comes back, and each removal goes with exactly one settlement
C18_SettledAtMostOnce ==
  /\ [](\A r \in ResponseIds :
         /\ Cardinality(SettlementsOf(r)) <= 1
         /\ SettlementsOf(r) # {} => ~IsPending(r)
         /\ Cardinality({ i \in 1..Len(pendingRequests) : pendingRequests[i] = r }) <= 1)
  /\ [][\A r \in 1..reqCount :
          /\ ~IsPending(r) => ~IsPending(r)'
          /\ (IsPending(r) /\ ~IsPending(r)') =>
               Cardinality(SettlementsOf(r)') = Cardinality(SettlementsOf(r)) + 1]_vars

C18_Witness ==
  /\ Len(webCalls) = 3
  /\ webCalls[1] = [fn |-> "handleFlutterResponse", requestId |-> 2]
  /\ webCalls[2] = [fn |-> "handleNativeResponseByType", requestId |-> 0]
  /\ webCalls[3] = [fn |-> "handleFlutterResponse", requestId |-> 2]
  /\ pendingRequests = <<>>
  /\ Len(settleLog) = 2
  /\ settleLog[1].requestId = 2 /\ settleLog[2].requestId = 1

\* C19: a response whose requestId is unknown or already settled is discarded:
\* the handleFlutterResponse call leaves the pending table as it was and settles nothing
C19_UnknownResponseDiscarded ==
  [][(/\ Len(webCalls') = Len(webCalls) + 1
      /\ webCalls'[Len(webCalls')].fn = "handleFlutterResponse"
      /\ ~IsPending(webCalls'[Len(webCalls')].requestId))
     => (pendingRequests' = pendingRequests /\ settleLog' = settleLog)]_vars

C19_Witness ==
  /\ Len(webCalls) = 3
  /\ webCalls[1] = [fn |-> "handleFlutterResponse", requestId |-> 1]
  /\ webCalls[2] = [fn |-> "handleFlutterResponse", requestId |-> 1]
  /\ webCalls[3] = [fn |-> "handleFlutterResponse", requestId |-> MaxRequests + 1]
  /\ pendingRequests = <<2>>
  /\ Len(settleLog) = 1
  /\ settleLog[1].requestId = 1

(***************************************************************************)
(* Claims about the order of responses (checked under OrderSpec)           *)
(***************************************************************************)
ResponseEntries == { i \in 1..Len(injected) : injected[i].s.kind = "response" }

\* C20: requestId responses reach the WebView in the order of their sendNativeResponse
\* calls (the order in which the native operations completed), whether they were
\* injected directly or went through the queue: injected responses are in call order,
\* and every response still queued was produced by a later call than every injected one
C20_CompletionOrder ==
  /\ \A i, j \in ResponseEntries : i < j => injected[i].s.seq < injected[j].s.seq
  /\ \A i \in ResponseEntries, j \in 1..Len(messageQueue) :
       injected[i].s.seq < messageQueue[j].seq
  /\ \A i, j \in 1..Len(messageQueue) : i < j => messageQueue[i].seq < messageQueue[j].seq

\* request 2 completed before request 1; its response was queued and flushed, the
\* response of request 1 was injected directly afterwards
C20_Witness ==
  /\ Len(injected) = 2
  /\ injected[1].s.kind = "response" /\ injected[1].s.requestId = 2 /\ injected[1].queued
  /\ injected[2].s.kind = "response" /\ injected[2].s.requestId = 1 /\ ~injected[2].queued
  /\ injected[1].s.seq = 1 /\ injected[2].s.seq = 2
  /\ messageQueue = <<>>

(***************************************************************************)
(* Claims about login, logout and the push token (checked under PushSpec)  *)
(***************************************************************************)
\* C21: handling a notifyLogout message sends no response and triggers the clearing
\* of the cached push token and of the badge (handleLogout is started)
C21_LogoutMessageClears ==
  [][\A i \in MsgIds :
       (msgs[i].phase = "idle" /\ msgs'[i].action = "notifyLogout") =>
         /\ genCount' = genCount
         /\ logoutPc' = "clearFcmToken"]_vars

\* C28: after handleLogout has completed, the hook's fcmToken is null and stays null
\* until handleLoginSuccess is called
C28_TokenStaysCleared == loggedOut = "yes" => fcmToken = Null

(***************************************************************************)
(* Claims about the dispatcher in both container generations               *)
(* (checked under VariantSpec)                                             *)
(***************************************************************************)
SyncCalls(i) ==
  { k \in 1..Len(msgs[i].calls) : msgs[i].calls[k].api = "syncFcmTokenToServer" }

\* C22: notifyLoginSuccess never produces a response or a type-based result, with or
\* without requestId, whether or not the sync fails; it calls the token-registration
\* endpoint at most once, only after getFcmToken returned a token and only when the
\* message carried an access token, and with exactly that token pair
C22_LoginSyncSilent ==
  /\ [](\A i \in MsgIds :
          msgs[i].action = "notifyLoginSuccess" =>
            /\ msgs[i].requestId # 0 => ResponseCount(msgs[i].requestId) = 0
            /\ Cardinality(SyncCalls(i)) <= 1
            /\ \A k \in SyncCalls(i) :
                 /\ msgs[i].arg = "accessToken"
                 /\ msgs[i].calls[k] = [api |-> "syncFcmTokenToServer", fcmToken |-> Token,
                                        accessToken |-> "accessToken"]
                 /\ k = 2
                 /\ msgs[i].calls[1].api = "getFcmToken")
  /\ [][\A i \in MsgIds :
          (msgs'[i] # msgs[i] /\ msgs'[i].action = "notifyLoginSuccess") =>
            /\ genCount' = genCount
            /\ injected' = injected
            /\ messageQueue' = messageQueue]_vars

\* a login message with requestId whose sync failed, and nothing was sent
C22_Witness ==
  /\ msgs[1].action = "notifyLoginSuccess"
  /\ msgs[1].requestId = 1
  /\ msgs[1].phase = "done"
  /\ msgs[1].threw2
  /\ SyncCalls(1) = {2}
  /\ isWebViewInteractive
  /\ injected = <<>>

(***************************************************************************)
(* Claims about single messages (checked under DispatchSpec)               *)
(***************************************************************************)
ApiCalls(i) == [k \in 1..Len(msgs[i].calls) |-> msgs[i].calls[k].api]

\* C23: a shareKakao message with a requestId never has more than one response, and
\* has exactly one when its handling ended: success after the Kakao SDK share; after an
\* SDK failure the share sheet is invoked, with success if it succeeds and success=false
\* if it fails too; invalid share data gives success=false and neither share path runs
C23_ShareKakaoAnsweredOnce ==
  \A i \in MsgIds :
    (msgs[i].action = "shareKakao" /\ msgs[i].requestId # 0) =>
      LET rs == ResponsesOf(msgs[i].requestId) IN
      /\ ResponseCount(msgs[i].requestId) <= 1
      /\ msgs[i].arg = "invalid" => ApiCalls(i) = <<>>
      /\ msgs[i].phase = "done" =>
           /\ ResponseCount(msgs[i].requestId) = 1
           /\ msgs[i].arg = "invalid" => \A r \in rs : ~r.success
           /\ (msgs[i].arg = "valid" /\ ~msgs[i].threw) =>
                /\ \A r \in rs : r.success
                /\ ApiCalls(i) = <<"shareKakaoFeed">>
           /\ (msgs[i].arg = "valid" /\ msgs[i].threw) =>
                /\ \A r \in rs : r.success = ~msgs[i].threw2
                /\ ApiCalls(i) = <<"shareKakaoFeed", "Share.share">>

\* the SDK share failed and the share sheet succeeded
C23_Witness ==
  /\ msgs[1].action = "shareKakao" /\ msgs[1].arg = "valid" /\ msgs[1].requestId = 1
  /\ msgs[1].phase = "done"
  /\ msgs[1].threw /\ ~msgs[1].threw2
  /\ \E r \in ResponsesOf(1) : r.success /\ r.data = ShareResult(TRUE)

(***************************************************************************)
(* Claims about pickImage without a source (checked under VariantSpec)     *)
(***************************************************************************)
NoSourceMsgs ==
  { i \in MsgIds : msgs[i].action = "pickImage" /\ msgs[i].arg = "nosource" }

PickerApis == {"pickImage", "pickImageFromCamera", "pickImageFromGallery",
               "showImagePickerActionSheet"}

\* C24: a pickImage message without a source, in the current container, launches no
\* picker and, with a requestId, has exactly one response, which is success=false; in
\* the legacy container it opens the action-sheet picker (and nothing is answered
\* before the sheet settles)
C24_NoSourcePerVariant ==
  /\ [](\A i \in NoSourceMsgs :
          /\ variant = "current" =>
               /\ msgs[i].phase = "done"
               /\ \A k \in 1..Len(msgs[i].calls) : msgs[i].calls[k].api \notin PickerApis
               /\ msgs[i].requestId # 0 =>
                    /\ ResponseCount(msgs[i].requestId) = 1
                    /\ \A r \in ResponsesOf(msgs[i].requestId) :
                         ~r.success /\ r.data = Null /\ r.error \notin {"", Undefined}
          /\ variant = "legacy" => ApiCalls(i) = <<"showImagePickerActionSheet">>)
  /\ [][\A i \in MsgIds :
          (/\ variant = "legacy"
           /\ msgs[i].phase = "idle"
           /\ msgs'[i].action = "pickImage" /\ msgs'[i].arg = "nosource")
            => msgs'[i].phase = "await" /\ genCount' = genCount]_vars

C24_Witness ==
  /\ variant = "current"
  /\ msgs[1].action = "pickImage" /\ msgs[1].arg = "nosource" /\ msgs[1].requestId = 1
  /\ msgs[1].calls = <<>>
  /\ \E r \in ResponsesOf(1) : ~r.success /\ r.error = "source is required (camera or gallery)"

(***************************************************************************)
(* Claims about unrecognized actions (checked under DispatchSpec)          *)
(***************************************************************************)
\* C27: handling a message with an unrecognized action sends nothing (no response, no
\* type-based result), calls no platform API, leaves the message queue and the
\* interactive flag as they were, and no exception leaves handleMessage
C27_UnknownActionIgnored ==
  [][\A i \in MsgIds :
       (msgs[i].phase = "idle" /\ msgs'[i].phase # "idle" /\ msgs'[i].action \notin
          {"showImagePicker", "pickImage", "pickImageFromCamera", "pickImageFromGallery",
           "checkPermission", "getFcmToken", "notifyLoginSuccess", "notifyLogout",
           "downloadFile", "openExternalLink", "shareContent", "shareKakao"}) =>
         /\ msgs'[i].phase = "done"
         /\ msgs'[i].calls = <<>>
         /\ ~msgs'[i].escaped
         /\ injected' = injected
         /\ genCount' = genCount
         /\ messageQueue' = messageQueue
         /\ isWebViewInteractive' = isWebViewInteractive]_vars

C27_Witness ==
  /\ msgs[1].action = "bogusAction" /\ msgs[1].requestId = 1 /\ msgs[1].phase = "done"
  /\ load = "ended" /\ isWebViewInteractive
  /\ injected = <<>> /\ messageQueue = <<>>
  /\ pendingRequests = <<1>>

(***************************************************************************)
(* C25, C26: classification of WebView errors                              *)
(***************************************************************************)
ErrorEntries == {errorLog[k] : k \in 1..Len(errorLog)}

HasPaymentMarker(text) ==
  \E k \in 1..Len(text) : text[k] \in {"ansimclick", "directLinkedOnlinePay"}

IsOAuthAuthorizeError(text) ==
  (\E k \in 1..Len(text) : text[k] = "/oauth2/") /\ (\E k \in 1..Len(text) : text[k] = "/authorize")

\* C25: an HTTP error with a 4xx status never reaches onError, while an HTTP error
\* with a 5xx status and a load failure (neither of them a filtered payment-widget or
\* OAuth authorize error) reach the consumer through onError.
C25_ErrorsSurfacedByClass ==
  \A e \in ErrorEntries :
    /\ (e.kind = "http" /\ e.statusCode >= 400 /\ e.statusCode < 500) => e.onError = <<>>
    /\ (e.kind = "http" /\ e.statusCode >= 500 /\ ~HasPaymentMarker(e.text)
          /\ ~IsOAuthAuthorizeError(e.text)) => e.onError # <<>>
    /\ (e.kind = "load" /\ ~HasPaymentMarker(e.text)) => e.onError = <<e.text>>

\* C26: a load error whose description, or an HTTP error whose URL, contains
\* ansimclick or directLinkedOnlinePay never invokes onError (and raises no alert).
C26_PaymentWidgetErrorsFiltered ==
  \A e \in ErrorEntries : HasPaymentMarker(e.text) => (e.onError = <<>> /\ e.alerts = 0)

\* a payment-widget load error and a payment-widget HTTP 5xx error were both handled,
\* neither reaching onError
C26_Witness ==
  /\ Len(errorLog) = 2
  /\ errorLog[1].kind = "load" /\ HasPaymentMarker(errorLog[1].text)
  /\ errorLog[2].kind = "http" /\ HasPaymentMarker(errorLog[2].text)
  /\ errorLog[2].statusCode = 500
  /\ errorLog[1].onError = <<>> /\ errorLog[2].onError = <<>>

(***************************************************************************)
(* C29: the default path of the resolver (checked under ResolveSpec)       *)
(***************************************************************************)
\* the path component of a URL: what follows the scheme and the host segment, up to
\* the query; / when nothing is left
PathComponent(url) ==
  LET noQuery == BeforeFirst(Tail(url), "?")
      path == IF noQuery # <<>> /\ noQuery[1] # "/" THEN Tail(noQuery) ELSE noQuery
  IN  IF path = <<>> THEN "/" ELSE Join(path)

\* C29: a supported deep link with no semantic identifier and no OAuth code resolves
\* to its path component with scheme and host stripped, / when that is empty, so
\* camter://home resolves to / and every such path begins with /.
C29_DefaultPathIsPathComponent ==
  (/\ rpc = "out"
   /\ \A i \in 1..Len(IdKeys) : ~Present(IdKeys[i])
   /\ ~Present("code"))
    => /\ rPath = PathComponent(rUrl)
       /\ rUrl = <<"camter://", "home">> => rPath = "/"

(***************************************************************************)
(* C30: the interception policy as a whole (checked under NavSpec)         *)
(***************************************************************************)
EscapeSchemes ==
  {"kakao", "supertoss://", "tosspayments://", "market://", "itms-apps://",
   "tel:", "mailto:", "sms:"}

StoreHosts == {"play.google.com", "apps.apple.com"}

\* url targets the backend's OAuth authorize endpoint
IsAuthorizeTarget(url) ==
  /\ Len(url) >= 2 /\ url[1] = "https://" /\ url[2] = "dev.api.camter.co.kr"
  /\ \E k \in 1..Len(url) : url[k] = "/oauth2/"
  /\ \E k \in 1..Len(url) : url[k] = "/authorize"

\* one of the escape rules applies to url, asked about while the source is source;
\* recognized: the payment SDK takes the URL for an app link
EscapeRuleMatches(url, source, recognized) ==
  \/ IsAuthorizeTarget(url) /\ ~source.origin
  \/ url[1] = "intent://" /\ recognized
  \/ url[1] \in EscapeSchemes
  \/ \E k \in 1..Len(url) : url[k] \in StoreHosts

\* C30: the current container's handler returns true exactly when the URL matches
\* none of the escape rules (un-headered backend OAuth authorize, intent:// recognized
\* by the payment SDK, share/payment/store schemes, tel:/mailto:/sms:); an intent://
\* URL the SDK does not recognize is allowed to load.
C30_AllowedIffNoEscapeRule ==
  [][(variant = "current" /\ Len(navLog') = Len(navLog) + 1 /\ navLog'[Len(navLog')].asked)
       => LET e == navLog'[Len(navLog')]
          IN  e.allow <=> ~EscapeRuleMatches(e.url, webviewSource, e.launched)]_vars

(***************************************************************************)
(* C31: pickers behind the permission request (checked under DispatchSpec) *)
(***************************************************************************)
Launchers == {"launchCameraAsync", "launchImageLibraryAsync"}

SourcedPicks ==
  { i \in MsgIds : /\ msgs[i].action \in PickActions
                   /\ msgs[i].arg # "nosource"
                   /\ msgs[i].phase = "done" }

\* C31: for pickImage with a source, pickImageFromCamera and pickImageFromGallery the
\* picker is launched only as the second platform call, after the permission request
\* of its own type returned granted; when the permission is denied or the user
\* cancels, a message with a requestId has exactly one response, which is
\* success=false without an image, and no exception leaves handleMessage.
C31_PickerAfterGrant ==
  \A i \in SourcedPicks :
    LET m == msgs[i]
        camera == m.action = "pickImageFromCamera" \/ m.arg = "camera"
    IN  /\ \A k \in 1..Len(m.platform) :
             m.platform[k] \in Launchers =>
               /\ k = 2
               /\ m.outcome \in {"cancelled", "asset"}
               /\ m.platform[1] = (IF camera THEN "requestCameraPermissionsAsync"
                                   ELSE "requestMediaLibraryPermissionsAsync")
               /\ m.platform[2] = (IF camera THEN "launchCameraAsync"
                                   ELSE "launchImageLibraryAsync")
        /\ m.outcome \in {"denied", "cancelled"} =>
             /\ ~m.escaped
             /\ m.requestId # 0 =>
                  /\ ResponseCount(m.requestId) = 1
                  /\ \A r \in ResponsesOf(m.requestId) : ~r.success /\ r.data = Null

\* a camera request with a requestId was denied: the picker was not launched and the
\* one response is a failure
C31_Witness ==
  /\ msgs[1].action = "pickImageFromCamera" /\ msgs[1].requestId = 1
  /\ msgs[1].phase = "done" /\ msgs[1].outcome = "denied"
  /\ msgs[1].platform = <<"requestCameraPermissionsAsync">>
  /\ ResponseCount(1) = 1
  /\ \A r \in ResponsesOf(1) : ~r.success

(***************************************************************************)
(* C32: the answer to getFcmToken (checked under DispatchSpec)             *)
(***************************************************************************)
TokenRequests ==
  { i \in MsgIds : /\ msgs[i].action = "getFcmToken"
                   /\ msgs[i].requestId # 0
                   /\ msgs[i].phase = "done" }

\* C32: a getFcmToken message with a requestId has one response; its data is the
\* device token when getFcmToken returned one and null otherwise (no token, or the
\* call threw), and its success field is true exactly when a token was returned.
C32_TokenAnswer ==
  \A i \in TokenRequests :
    /\ ResponseCount(msgs[i].requestId) = 1
    /\ \A r \in ResponsesOf(msgs[i].requestId) :
         /\ r.success <=> msgs[i].outcome = "token"
         /\ r.data = (IF msgs[i].outcome = "token" THEN Token ELSE Null)
         /\ r.data # Null <=> r.success

\* getFcmToken returned null for a request with a requestId: answered with
\* success=false and no token
C32_Witness ==
  /\ msgs[1].action = "getFcmToken" /\ msgs[1].requestId = 1
  /\ msgs[1].phase = "done" /\ msgs[1].outcome = "null"
  /\ \E r \in ResponsesOf(1) : ~r.success /\ r.data = Null

(***************************************************************************)
(* C33: the queue is empty while the container is interactive              *)
(* (checked under Spec)                                                    *)
(***************************************************************************)
\* C33: in the current container, whenever the interactive flag is true and the
\* WebView ref exists the message queue is empty; and a response is injected directly
\* only in a step that starts with an empty queue, so it never overtakes a queued one.
C33_InteractiveQueueEmpty ==
  /\ []((isWebViewInteractive /\ mounted) => messageQueue = <<>>)
  /\ [][\A k \in (Len(injected) + 1)..Len(injected') :
          (injected'[k].s.kind = "response" /\ ~injected'[k].queued) => messageQueue = <<>>]_vars

\* a response that was queued and flushed, then a response injected directly, with the
\* container interactive and the queue empty
C33_Witness ==
  /\ isWebViewInteractive /\ mounted
  /\ messageQueue = <<>>
  /\ Len(injected) = 2
  /\ injected[1].s.kind = "response" /\ injected[1].queued
  /\ injected[2].s.kind = "response" /\ ~injected[2].queued

(***************************************************************************)
(* C34: clearing a resolved deep link (checked under LinkSpec)             *)
(***************************************************************************)
\* C34: a resolved deep link is cleared only in a step in which the WebView is mounted
\* and a navigation script for the link's path is injected; a link that resolves
\* while the splash screen is shown is not discarded without navigation.
C34_ClearedOnlyAfterNavigation ==
  [][(deepLink # NoDeepLink /\ deepLink' = NoDeepLink)
       => /\ mounted'
          /\ \E k \in (Len(injected) + 1)..Len(injected') :
               /\ injected'[k].s.kind = "nav"
               /\ injected'[k].s.target \in {deepLink.webViewPath,
                                             WEBVIEW_BASE \o deepLink.webViewPath}]_vars

(***************************************************************************)
(* C35: start-up completes (checked under StartSpec)                       *)
(***************************************************************************)
AllReady == isAppReady /\ isReady /\ isPushInitialized

\* C35: when every awaited start-up call settles (getInitialURL resolving or
\* rejecting, push initialisation succeeding or throwing, prepare() reaching its
\* finally block), the three flags become true, the app leaves the splash state and
\* the WebView is mounted for good; the WebView is never mounted before all three
\* flags are true.
C35_StartupCompletes ==
  /\ <>[](AllReady /\ mounted)
  /\ [](mounted => AllReady)

\* the WebView is mounted after a start-up without a deep link
C35_Witness == mounted /\ AllReady /\ ~dirty /\ processedUrls = {} /\ deepLink = NoDeepLink

(***************************************************************************)
(* C36: Kakao SDK initialisation (checked under KakaoSpec)                 *)
(***************************************************************************)
KakaoEvents(ev) == { k \in 1..Len(kakaoLog) : kakaoLog[k].ev = ev }

\* C36: the Kakao SDK is initialized successfully at most once; once it has been,
\* no later call reaches initializeKakaoSDK; a caller whose initKakaoSDK returned
\* false has not left the SDK marked initialized; and shareFeedTemplate is invoked
\* only while the SDK is marked initialized -- overlapping calls included.
C36_KakaoInitializedOnce ==
  /\ Cardinality(KakaoEvents("initialized")) <= 1
  /\ \A k \in KakaoEvents("initialized"), l \in KakaoEvents("initializeKakaoSDK") : l < k
  /\ \A k \in KakaoEvents("initReturn") :
       ~kakaoLog[k].value =>
         \A l \in KakaoEvents("initialized") : kakaoLog[l].caller # kakaoLog[k].caller
  /\ \A k \in KakaoEvents("shareFeedTemplate") : kakaoLog[k].flag

\* a back press that is neither on a payment page nor taken by the WebView's history
ExitCandidate(e) == ~isPaymentUrl(e.url) /\ ~(e.canGoBack /\ ~isHomePage(e.url))

\* C37: the back handler always consumes the event; BackHandler.exitApp is called only
\* on a press that is not on a payment URL, is not handled by WebView history navigation
\* and comes less than 2000 ms after an earlier press that showed the exit snackbar; the
\* first such press only shows the snackbar and never exits
C37_DoubleBackToExit ==
  /\ \A k \in 1..Len(backLog) :
       /\ backLog[k].consumed
       /\ backLog[k].effect = "exit" =>
            /\ ExitCandidate(backLog[k])
            /\ \E j \in 1..(k - 1) :
                 /\ backLog[j].effect = "snackbar"
                 /\ backLog[k].time - backLog[j].time < 2000
       /\ (ExitCandidate(backLog[k]) /\ \A j \in 1..(k - 1) : ~ExitCandidate(backLog[j])) =>
            backLog[k].effect = "snackbar"
  /\ exited <=> \E k \in 1..Len(backLog) : backLog[k].effect = "exit"

\* a press showed the snackbar and the next press, less than 2000 ms later, exited
C37_Witness ==
  /\ exited
  /\ Len(backLog) = 2
  /\ backLog[1].effect = "snackbar"
  /\ backLog[2].effect = "exit"
  /\ backLog[2].time - backLog[1].time < 2000

(***************************************************************************)
(* C38: the two container generations give the same answers                *)
(* (checked under ParitySpec)                                              *)
(***************************************************************************)
\* requests of the actions both generations answer, whose native operation has settled
ParityRequests ==
  { i \in MsgIds : /\ msgs[i].action \in ParityActions
                   /\ msgs[i].arg \notin {"nosource", "nodata", "notype"}
                   /\ msgs[i].requestId # 0
                   /\ msgs[i].phase = "done" }

\* the response to a native outcome, whatever the container generation: an image, a
\* permission record or a token on success; null and an error text otherwise
AnswerTo(m) ==
  LET success == CASE m.action \in PickActions -> m.outcome = "asset"
                   [] m.action = "checkPermission" -> TRUE
                   [] OTHER -> m.outcome = "token"
      data == CASE m.action \in PickActions -> Image(SourceOf(m.action, m.arg))
                [] m.action = "checkPermission" -> checkPermission(m.outcome)
                [] OTHER -> Token
      thrown == m.action = "getFcmToken" /\ m.outcome = "throws" /\ m.err # ""
  IN  [requestId |-> m.requestId,
       success |-> success,
       data |-> IF success THEN data ELSE Null,
       error |-> IF success THEN Undefined
                 ELSE IF thrown THEN m.err ELSE "Unknown error"]

ResponseFields(s) ==
  [requestId |-> s.requestId, success |-> s.success, data |-> s.data, error |-> s.error]

\* C38: for pickImage with a source, pickImageFromCamera, pickImageFromGallery,
\* checkPermission and getFcmToken carrying a requestId, the legacy container and the
\* current container answer a native outcome with the same response (requestId,
\* success, data, error): one response, which depends on the message and the outcome
\* only; the legacy container and the interactive current container inject it at once.
C38_SameAnswerInBothContainers ==
  \A i \in ParityRequests :
    /\ ResponseCount(msgs[i].requestId) = 1
    /\ \A r \in ResponsesOf(msgs[i].requestId) :
         /\ ResponseFields(r) = AnswerTo(msgs[i])
         /\ (variant = "legacy" \/ r.genOpen) =>
              \E k \in InjectedResponses(msgs[i].requestId) : ~injected[k].queued

\* the legacy container answered a getFcmToken request that threw an error without a
\* message
C38_Witness ==
  /\ variant = "legacy"
  /\ 1 \in ParityRequests
  /\ msgs[1].action = "getFcmToken" /\ msgs[1].outcome = "throws" /\ msgs[1].err = ""
  /\ \E r \in ResponsesOf(1) : ~r.success /\ r.error = "Unknown error"

\* the interactive current container answered a picker request with an image
C38_WitnessCurrent ==
  /\ variant = "current"
  /\ 1 \in ParityRequests
  /\ msgs[1].action = "pickImage" /\ msgs[1].outcome = "asset"
  /\ \E r \in ResponsesOf(1) : r.success /\ r.genOpen /\ r.data = Image(msgs[1].arg)


====
